---------------------------- MODULE Spec2Model ----------------------------
(***************************************************************************)
(* A model of the powerview extraction pipeline: the timeframe planner     *)
(* (extract.py), the partitioned record store and the ingestion state      *)
(* table (storage.py), the orchestrator (main.py) and the builder of the   *)
(* reporting layer (reporting.py, metadata.py).                            *)
(*                                                                         *)
(* Dates are day numbers (integers); timestamps are hour numbers, so that  *)
(* the consumption date of a timestamp t is t \div 24.  Metering point ids *)
(* are numbers: the ids of the source are digit strings of one length,     *)
(* whose lexicographic order is the numeric one.                           *)
(***************************************************************************)
EXTENDS Integers, Sequences, FiniteSets, TLC

VARIABLES
    \* ---- chunk_date_range called on its own (SpecChunk) ----
    arg_from,       \* argument date_from
    arg_to,         \* argument date_to
    arg_days,       \* argument chunk_days
    ret_chunks,     \* the returned list of (chunk_from, chunk_to)
    returned        \* TRUE once the call has returned

chunkVars == <<arg_from, arg_to, arg_days, ret_chunks, returned>>

VARIABLES
    \* ---- the partitioned record store ----
    files,          \* partition key (metering point, consumption date) of every
                    \* consumption_data.parquet on disk |-> the file
    \* ---- save_to_parquet called on its own (SpecStore) ----
    observed,       \* 0 while the store is being filled by earlier calls, 1
                    \* after the call that is looked at, 2 after that call
                    \* was made once more with the same records
    last_records,   \* the records argument of the call looked at
    last_fail_at,   \* the group of that call whose write was made to fail
                    \* from outside (0: none)
    last_result,    \* "none", "returned" or "raised": how the last call
                    \* looked at ended
    prev_files      \* the files as they were when the last call looked at
                    \* started

storeVars == <<observed, last_records, last_fail_at, last_result, prev_files>>

VARIABLES
    \* ---- the ingestion_state table and the clock ----
    ingestion_state, \* the rows of the table ingestion_state
    today,           \* datetime.now(UTC).date()
    \* ---- main() ----
    pc,              \* where main() stands: "load_config", "init_state",
                     \* "get_token", "entity" (head of the loop over the
                     \* metering points), "chunk" (head of the loop over the
                     \* chunks) or "done"
    run_result,      \* "running", "completed" (line 124 reached),
                     \* "config_error", "state_error" or "token_error" (that
                     \* setup step raised and its except clause logged it)
                     \* or "raised" (an exception left main())
    mp_index,        \* position of the loop over valid_metering_points
    date_from,       \* date_from of the metering point being processed
    date_to,         \* date_to of the metering point being processed
    chunks,          \* its chunks
    chunk_index,     \* position of the loop over chunks
    chunk_success,   \* the flag of line 75
    \* ---- what happened, recorded for the claims ----
    outcomes,        \* per chunk attempted for the current metering point:
                     \* how it ended and the records it normalized
    pass_mp,         \* the metering point of the current pass (None: none)
    pass_error,      \* the except clause of line 120 ended the current pass
    entity_errors,   \* the metering points whose pass that clause ended
    update_calls,    \* calls of update_last_ingestion_date in the current pass
    update_written,  \* the current pass wrote the checkpoint
    pass_start_state, \* ingestion_state when the current pass started
    visited,         \* metering points whose pass was started
    fetches,         \* calls of get_meter_data_with_retry so far
    last_fetch,      \* the last of them: the answers of the API and what
                     \* the call did
    run_start_state, \* ingestion_state when main() started
    run_start_files  \* files when main() started

mainVars == <<pc, run_result, mp_index, date_from, date_to, chunks,
              chunk_index, chunk_success>>

traceVars == <<outcomes, pass_mp, pass_error, entity_errors, update_calls, update_written,
               pass_start_state, visited, fetches, last_fetch, run_start_state,
               run_start_files>>

VARIABLES
    \* ---- the state table used on its own (SpecState) ----
    state_call,     \* the last call of update_last_ingestion_date or of
                    \* get_timeframe: its arguments, what the environment
                    \* did during it, and what it returned
    state_before,   \* ingestion_state when that call started
    latest,         \* metering point |-> the date of its most recent update
                    \* that returned (None: there was none)
    \* ---- get_meter_data_with_retry, get_prices_with_retry (SpecFetch) ----
    fetch_call,     \* the last call: its arguments, the answers of the API
                    \* and what the call did
    \* ---- normalize_api_response called on its own (SpecNormalize) ----
    norm_call       \* the last call: the response and what was returned

callVars == <<state_call, state_before, latest, fetch_call, norm_call>>

VARIABLES
    \* ---- build_reporting_layer (SpecReport) ----
    data_root,      \* the directory DATA_STORAGE_PATH exists
    analytics_dir,  \* the parent directory of the analytics database exists
    database,       \* the analytics database: whether its file exists, its
                    \* schemas, its views (name |-> definition) and its
                    \* tables (name |-> rows)
    builds,         \* 0 while earlier builds and writes go on, 1 after the
                    \* build that is looked at, 2 after that build was made
                    \* once more with the same arguments
    report_call     \* the last build looked at: its arguments, the database
                    \* it found and what it did

reportVars == <<data_root, analytics_dir, database, builds, report_call>>

vars == <<chunkVars, files, storeVars, ingestion_state, today, mainVars,
          traceVars, callVars, reportVars>>

-----------------------------------------------------------------------------
(* Bounds of the model *)

\* dates drawn for a direct call of chunk_date_range are 0..MaxDay
MaxDay == 9
\* chunk sizes drawn for a direct call of chunk_date_range are 1..MaxChunkDays
MaxChunkDays == 4
\* a batch handed to save_to_parquet on its own holds 0..MaxBatch records
MaxBatch == 2
\* the date on which main() runs
RunDay == 1000
\* the configured initial_backfill_days (INITIAL_BACKFILL_DAYS)
BackfillDays == 200
\* a checkpoint left by an earlier run is CheckpointAge days old
CheckpointAge == 30
\* SpecState: the days the clock may go on
MaxClockTicks == 2
\* SpecFetch: the largest max_retries argument, and the number of answers of
\* the API that are drawn
MaxRetryLimit == 3
\* SpecNormalize: the points of a period of a response number 0..MaxPoints
MaxPoints == 2

-----------------------------------------------------------------------------
(* extract.py: chunk_date_range *)

Min(a, b) == IF a <= b THEN a ELSE b

\* a plausible slip: the last chunk is not clipped to date_to
ChunkEndUnclipped(current, dto, chunk_days) == current + (chunk_days - 1)

\* chunk_end = min(current + timedelta(days=chunk_days - 1), date_to)
ChunkEnd(current, dto, chunk_days) ==
    Min(current + (chunk_days - 1), dto)

\* a plausible slip: the day after chunk_end is skipped
NextCurrentLate(chunk_end) == chunk_end + 2

\* current = chunk_end + timedelta(days=1)
NextCurrent(chunk_end) == chunk_end + 1

\* the while loop of chunk_date_range, entered with the chunks found so far
\* (dto: the argument date_to)
RECURSIVE ChunkLoop(_, _, _, _)
ChunkLoop(current, dto, chunk_days, found) ==
    IF current <= dto
    THEN LET chunk_end == ChunkEnd(current, dto, chunk_days)
             appended  == Append(found, <<current, chunk_end>>)
         IN  IF chunk_end >= dto
             THEN appended
             ELSE ChunkLoop(NextCurrent(chunk_end), dto, chunk_days, appended)
    ELSE found

\* dfrom, dto: the arguments date_from and date_to
chunk_date_range(dfrom, dto, chunk_days) ==
    ChunkLoop(dfrom, dto, chunk_days, <<>>)

-----------------------------------------------------------------------------
(* storage.py: save_to_parquet *)

\* A normalized record.  consumption_value stands for everything a record
\* carries besides its key (value, quality, unit, ingestion time).
Rec(mp, ts, v) ==
    [metering_point_id |-> mp, timestamp |-> ts, consumption_value |-> v]

\* df["consumption_date"] = df["timestamp"].dt.date
consumption_date(r) == r.timestamp \div 24

\* a plausible slip: the frame is grouped by the metering point alone
PartitionKeyWithoutDate(r) == <<r.metering_point_id, 0>>

\* the groupby key of a record
PartitionKey(r) == <<r.metering_point_id, consumption_date(r)>>

\* the order in which groupby (sort=True) yields its keys
KeyBefore(a, b) == a[1] < b[1] \/ (a[1] = b[1] /\ a[2] < b[2])

RECURSIVE SortedKeys(_)
SortedKeys(keys) ==
    IF keys = {} THEN <<>>
    ELSE LET first == CHOOSE k \in keys : \A o \in keys \ {k} : KeyBefore(k, o)
         IN  <<first>> \o SortedKeys(keys \ {first})

\* the keys of df.groupby(["metering_point_id", "consumption_date"]), in order
GroupKeys(records) ==
    SortedKeys({PartitionKey(records[i]) : i \in 1..Len(records)})

\* group_df: the records of one key, in the order of the input
GroupOf(records, key) == SelectSeq(records, LAMBDA r : PartitionKey(r) = key)

Timestamps(rows) == {rows[i].timestamp : i \in 1..Len(rows)}

Front(seq) == SubSeq(seq, 1, Len(seq) - 1)

\* sort_values("timestamp"): rows of equal timestamp keep their order (the
\* sort pandas runs is an insertion sort on frames this small)
RECURSIVE InsertByTimestamp(_, _)
InsertByTimestamp(sorted, r) ==
    IF sorted = <<>> \/ sorted[Len(sorted)].timestamp <= r.timestamp
    THEN Append(sorted, r)
    ELSE Append(InsertByTimestamp(Front(sorted), r), sorted[Len(sorted)])

RECURSIVE sort_values(_)
sort_values(rows) ==
    IF rows = <<>> THEN <<>>
    ELSE InsertByTimestamp(sort_values(Front(rows)), rows[Len(rows)])

\* a plausible slip: the rows of the existing file are all kept
KeepAllExisting(existing, group) == existing

\* a plausible slip: the ~ of the mask is forgotten
KeepOverlapping(existing, group) ==
    SelectSeq(existing, LAMBDA r : r.timestamp \in Timestamps(group))

\* existing_df[~existing_df["timestamp"].isin(group_df["timestamp"])]
DropOverlapping(existing, group) ==
    SelectSeq(existing, LAMBDA r : r.timestamp \notin Timestamps(group))

\* a parquet file that was written whole; what a write that failed part way
\* leaves at file_path: a file that cannot be read back; and a partition
\* directory that mkdir made and that holds no file yet
Written(rows) == [exists |-> TRUE, readable |-> TRUE, rows |-> rows]
Truncated == [exists |-> TRUE, readable |-> FALSE, rows |-> <<>>]
EmptyDirectory == [exists |-> FALSE, readable |-> FALSE, rows |-> <<>>]

\* the partition directories under base_path
Directories(fs) == DOMAIN fs

\* file_path.exists()
FileExists(fs, key) == key \in DOMAIN fs /\ fs[key].exists

\* a plausible slip: the frame is written as concatenated
CombinedUnsorted(fs, key, group) ==
    IF FileExists(fs, key)
    THEN DropOverlapping(fs[key].rows, group) \o group
    ELSE group

\* combined_df of one group: the upsert when the file exists, else the group
Combined(fs, key, group) ==
    IF FileExists(fs, key)
    THEN sort_values(DropOverlapping(fs[key].rows, group) \o group)
    ELSE sort_values(group)

PutFile(fs, key, file) ==
    [k \in DOMAIN fs \cup {key} |-> IF k = key THEN file ELSE fs[k]]

\* partition_path.mkdir(parents=True, exist_ok=True)
MakeDirectory(fs, key) ==
    IF key \in DOMAIN fs THEN fs ELSE PutFile(fs, key, EmptyDirectory)

\* What the body of one group leaves when it raises for a reason outside the
\* program: "before" it raised in mkdir, "opening" it raised after mkdir and
\* before to_parquet opened the file (read_parquet failed, or to_parquet
\* could not create the file), "during" it raised while to_parquet wrote.
FailedWrite(fs, key, fail_mode) ==
    IF fail_mode = "before" THEN fs
    ELSE IF fail_mode = "opening" THEN MakeDirectory(fs, key)
    ELSE PutFile(fs, key, Truncated)

\* a plausible slip: the except clause logs and does not re-raise
LogOnly(fs) == [files |-> fs, raised |-> FALSE]

\* except Exception: logger.error(...); raise
Reraise(fs) == [files |-> fs, raised |-> TRUE]

\* a plausible slip: the except clause keeps the exception, the loop goes on
\* with the groups that follow and the exception is raised after the loop
RECURSIVE SaveLoopGoesOn(_, _, _, _, _, _)
SaveLoopGoesOn(fs, records, keys, i, fail_at, fail_mode) ==
    IF i > Len(keys) THEN [files |-> fs, raised |-> fail_at \in 1..Len(keys)]
    ELSE IF i = fail_at
    THEN SaveLoopGoesOn(FailedWrite(fs, keys[i], fail_mode), records, keys,
                        i + 1, fail_at, fail_mode)
    ELSE SaveLoopGoesOn(PutFile(fs, keys[i],
                                Written(Combined(fs, keys[i],
                                                 GroupOf(records, keys[i])))),
                        records, keys, i + 1, fail_at, fail_mode)

\* The loop over the groups, from group i on.  fail_at is the group whose
\* body raises for a reason outside the program (0: none does) and fail_mode
\* tells where.  read_parquet also raises on a file that cannot be read.  The
\* except clause re-raises, which ends the call.
RECURSIVE SaveLoop(_, _, _, _, _, _)
SaveLoop(fs, records, keys, i, fail_at, fail_mode) ==
    IF i > Len(keys) THEN [files |-> fs, raised |-> FALSE]
    ELSE LET key == keys[i] IN
         IF FileExists(fs, key) /\ ~fs[key].readable
         THEN Reraise(fs)
         ELSE IF i = fail_at
         THEN Reraise(FailedWrite(fs, key, fail_mode))
         ELSE SaveLoop(PutFile(fs, key,
                               Written(Combined(fs, key, GroupOf(records, key)))),
                       records, keys, i + 1, fail_at, fail_mode)

\* a plausible slip: the early return is left out
NeverReturnsEarly(records) == FALSE

\* if not records: return
ReturnsEarly(records) == records = <<>>

\* save_to_parquet(records, base_path): the files it leaves, and whether it
\* raised.  Past the early return, df["timestamp"] raises KeyError on the
\* frame of an empty list, which has no columns.
save_to_parquet(fs, records, fail_at, fail_mode) ==
    IF ReturnsEarly(records)
    THEN [files |-> fs, raised |-> FALSE]
    ELSE IF records = <<>>
    THEN [files |-> fs, raised |-> TRUE]
    ELSE SaveLoop(fs, records, GroupKeys(records), 1, fail_at, fail_mode)

FailModes == {"before", "opening", "during"}

-----------------------------------------------------------------------------
(* storage.py: the ingestion_state table *)

None == -1

\* a row of ingestion_state (metering_point_id TEXT PRIMARY KEY,
\* last_ingestion_date DATE); the table is the set of its rows
Row(metering_point_id, date) ==
    [metering_point_id |-> metering_point_id, last_ingestion_date |-> date]

\* SELECT last_ingestion_date ... WHERE metering_point_id = ?
RowsOfPoint(state, metering_point_id) ==
    {row \in state : row.metering_point_id = metering_point_id}

\* a plausible slip: the except clause of lines 71-73 is missing and a query
\* that raised is answered from the row all the same
ReadFailureUnnoticed(state, metering_point_id, read_ok) ==
    IF RowsOfPoint(state, metering_point_id) # {}
    THEN (CHOOSE row \in RowsOfPoint(state, metering_point_id) :
              TRUE).last_ingestion_date
    ELSE None

\* get_last_ingestion_date: the date of the row fetched, None when there is
\* no row or when the query raised (read_ok = FALSE)
get_last_ingestion_date(state, metering_point_id, read_ok) ==
    IF read_ok /\ RowsOfPoint(state, metering_point_id) # {}
    THEN (CHOOSE row \in RowsOfPoint(state, metering_point_id) :
              TRUE).last_ingestion_date
    ELSE None

\* a plausible slip: a plain INSERT, without the ON CONFLICT clause
InsertOnly(state, metering_point_id, date) ==
    state \cup {Row(metering_point_id, date)}

\* INSERT ... ON CONFLICT(metering_point_id) DO UPDATE SET
\* last_ingestion_date = excluded.last_ingestion_date
Upsert(state, metering_point_id, date) ==
    (state \ RowsOfPoint(state, metering_point_id))
        \cup {Row(metering_point_id, date)}

\* max_retries of update_last_ingestion_date
max_retries == 3

\* a plausible slip: > for >=, the last failure is not re-raised
RetriesNeverExhausted(retries) == retries > max_retries

\* if retries >= max_retries: (line 111)
RetriesExhausted(retries) == retries >= max_retries

\* the while loop of lines 94-118.  write_raises[k] tells whether the k-th
\* attempt, if it is made, raises; retries counts as in the code, attempts
\* counts the executions of the INSERT statement
RECURSIVE UpdateLoop(_, _, _, _, _, _)
UpdateLoop(state, metering_point_id, date, write_raises, retries, attempts) ==
    IF ~(retries < max_retries)
    THEN [attempts |-> attempts, raised |-> FALSE, state |-> state]
    ELSE IF ~write_raises[attempts + 1]
    THEN [attempts |-> attempts + 1, raised |-> FALSE,
          state |-> Upsert(state, metering_point_id, date)]
    ELSE IF RetriesExhausted(retries + 1)
    THEN [attempts |-> attempts + 1, raised |-> TRUE, state |-> state]
    ELSE UpdateLoop(state, metering_point_id, date, write_raises,
                    retries + 1, attempts + 1)

\* update_last_ingestion_date: the attempts made, whether the last failure
\* was re-raised, the table left
update_last_ingestion_date(state, metering_point_id, date, write_raises) ==
    UpdateLoop(state, metering_point_id, date, write_raises, 0, 0)

\* what the attempts of one call may do: each raises or not
WriteOracles == [1..max_retries -> BOOLEAN]

-----------------------------------------------------------------------------
(* extract.py: get_timeframe *)

\* the overlap of an incremental run, timedelta(days=7)
OverlapDays == 7

\* a plausible slip: the backfill start is used whatever the state says
IgnoreCheckpoint(last_date, initial_backfill_days, now) ==
    now - initial_backfill_days

\* lines 33-47: date_from, from what the state table answered and from the
\* date the clock shows at line 34
DateFrom(last_date, initial_backfill_days, now) ==
    IF last_date = None
    THEN now - initial_backfill_days
    ELSE last_date - OverlapDays

\* get_timeframe.  The clock is read twice: now_from is the date it shows
\* at line 34, now_to the date it shows at line 49.
get_timeframe(state, metering_point_id, backfill_days, now_from, now_to, read_ok) ==
    LET last_date == get_last_ingestion_date(state, metering_point_id, read_ok)
    IN  <<DateFrom(last_date, backfill_days, now_from), now_to>>

-----------------------------------------------------------------------------
(* extract.py: normalize_api_response *)

\* A field of the response: a value that parses to the number val, an
\* absent one, one that int(), float() or fromisoformat() rejects with a
\* ValueError or TypeError, a position too large for timedelta (an
\* OverflowError), a period start that is no string (an AttributeError)
Num(n) == [kind |-> "num", val |-> n]
Missing == [kind |-> "missing", val |-> 0]
Bad == [kind |-> "bad", val |-> 0]
Huge == [kind |-> "huge", val |-> 0]
NonString == [kind |-> "nonstring", val |-> 0]

\* the default of point.get(name, 0)
FieldValue(field) == IF field.kind = "missing" THEN 0 ELSE field.val

\* a plausible slip: the position is taken for the number of hours
HoursAtPosition(position) == position

\* timedelta(hours=position - 1) (line 147)
HoursBefore(position) == position - 1

\* a plausible slip: every time series is taken
TrackedOrNot(metering_point_id, tracked) == TRUE

\* metering_point_id in mp_id_set (line 119)
Tracked(metering_point_id, tracked) == metering_point_id \in tracked

\* int() or float() raises (lines 142-143): except (ValueError, TypeError)
PointRejected(point) ==
    point.position.kind = "bad" \/ point.quantity.kind = "bad"

\* the record of lines 149-159
NormalizePoint(metering_point_id, period_start, point) ==
    Rec(metering_point_id,
        period_start + HoursBefore(FieldValue(point.position)),
        FieldValue(point.quantity))

\* what a loop of the function leaves: the records appended so far, and
\* whether an exception that only the clause of line 163 catches is on its
\* way out of the loop
Loop(records, aborted) == [records |-> records, aborted |-> aborted]

\* the loop over the points of a period (lines 140-162)
RECURSIVE NormalizePoints(_, _, _, _)
NormalizePoints(metering_point_id, period_start, points, records) ==
    IF points = <<>> THEN Loop(records, FALSE)
    ELSE IF PointRejected(Head(points))
    THEN NormalizePoints(metering_point_id, period_start, Tail(points),
                         records)
    ELSE IF Head(points).position.kind = "huge"
    THEN Loop(records, TRUE)
    ELSE NormalizePoints(metering_point_id, period_start, Tail(points),
                         Append(records,
                                NormalizePoint(metering_point_id, period_start,
                                               Head(points))))

\* a plausible slip: the loop over the periods ends at a start that does
\* not parse
BreakPeriods(periods) == <<>>

\* continue (lines 128 and 137): the periods that are still gone through
ContinuePeriods(periods) == Tail(periods)

\* the loop over the periods of a time series (lines 125-162)
RECURSIVE NormalizePeriods(_, _, _)
NormalizePeriods(metering_point_id, periods, records) ==
    IF periods = <<>> THEN Loop(records, FALSE)
    ELSE IF Head(periods).start.kind \in {"missing", "bad"}
    THEN NormalizePeriods(metering_point_id, ContinuePeriods(periods),
                          records)
    ELSE IF Head(periods).start.kind = "nonstring"
    THEN Loop(records, TRUE)
    ELSE LET done == NormalizePoints(metering_point_id,
                                     Head(periods).start.val,
                                     Head(periods).Point, records)
         IN  IF done.aborted THEN done
             ELSE NormalizePeriods(metering_point_id, Tail(periods),
                                   done.records)

\* the loop over the time series of one result (lines 112-162)
RECURSIVE NormalizeSeries(_, _, _)
NormalizeSeries(series, tracked, records) ==
    IF series = <<>> THEN Loop(records, FALSE)
    ELSE IF ~Tracked(Head(series).mRID, tracked)
    THEN NormalizeSeries(Tail(series), tracked, records)
    ELSE LET done == NormalizePeriods(Head(series).mRID, Head(series).Period,
                                      records)
         IN  IF done.aborted THEN done
             ELSE NormalizeSeries(Tail(series), tracked, done.records)

\* a plausible slip: the loop over the results ends at an unsuccessful one
BreakResults(results) == <<>>

\* continue (line 107): the results that are still gone through
ContinueResults(results) == Tail(results)

\* the loop over the results (lines 104-165): what was appended before an
\* exception stays, and the loop goes on with the next result
RECURSIVE NormalizeResults(_, _, _)
NormalizeResults(results, tracked, records) ==
    IF results = <<>> THEN records
    ELSE IF ~Head(results).success
    THEN NormalizeResults(ContinueResults(results), tracked, records)
    ELSE NormalizeResults(Tail(results), tracked,
                          NormalizeSeries(Head(results).TimeSeries, tracked,
                                          records).records)

\* normalize_api_response: it raises when the response is no JSON object
\* (api_response.get fails), and else returns the records
normalize_api_response(api_response, tracked) ==
    IF api_response.is_dict
    THEN [raised |-> FALSE,
          records |-> NormalizeResults(api_response.result, tracked, <<>>)]
    ELSE [raised |-> TRUE, records |-> <<>>]

-----------------------------------------------------------------------------
(* api_client.py: get_meter_data_with_retry *)

\* An answer of the API is its HTTP status: 200 lets get_meter_data return
\* the body, any other makes raise_for_status raise an HTTPError
HttpOk == 200

\* wait_time = 60 (line 115)
wait_time == 60

\* what a call does that the outside sees: requests and pauses
CallEvent(endpoint) == [kind |-> "call", endpoint |-> endpoint, seconds |-> 0]
SleepEvent(endpoint) ==
    [kind |-> "sleep", endpoint |-> endpoint, seconds |-> wait_time]

\* the requests made so far
Requests(events) ==
    Cardinality({k \in 1..Len(events) : events[k].kind = "call"})

\* a plausible slip: every HTTP error is retried
RetryableAny(status) == status # HttpOk

\* e.response.status_code in (429, 503) (line 110, and line 164 of
\* prices_api_client.py)
Retryable(status) == status \in {429, 503}

\* a plausible slip: > for >=, the loop ends without the error being raised
FetchRetriesNeverExhausted(retries, retry_limit) == retries > retry_limit

\* if retries >= max_retries: (line 112, and line 166 of
\* prices_api_client.py)
FetchRetriesExhausted(retries, retry_limit) == retries >= retry_limit

\* how a call of one of the two functions ended
FetchResult(outcome, status, events) ==
    [outcome |-> outcome, status |-> status, events |-> events]

\* the while loop of lines 106-124.  answers[k] is the status of the k-th
\* request, if it is made.  When the loop condition fails the function ends
\* without a return statement.
RECURSIVE MeterDataLoop(_, _, _, _)
MeterDataLoop(answers, retry_limit, retries, events) ==
    IF ~(retries < retry_limit)
    THEN FetchResult("returned_none", None, events)
    ELSE LET status == answers[Requests(events) + 1]
             called == Append(events, CallEvent("meterdata"))
         IN  IF status = HttpOk
             THEN FetchResult("returned", status, called)
             ELSE IF ~Retryable(status)
             THEN FetchResult("raised", status, called)
             ELSE IF FetchRetriesExhausted(retries + 1, retry_limit)
             THEN FetchResult("raised", status, called)
             ELSE MeterDataLoop(answers, retry_limit, retries + 1,
                                Append(called, SleepEvent("meterdata")))

get_meter_data_with_retry(answers, retry_limit) ==
    MeterDataLoop(answers, retry_limit, 0, <<>>)

-----------------------------------------------------------------------------
(* prices_api_client.py: get_prices_with_retry *)

\* _resolve_dataset: the dataset named, or for "auto" the one of the start
\* date; "invalid" stands for the ValueError of line 117
resolve_dataset(before_transition, dataset) ==
    IF dataset \in {"elspot", "dayahead"} THEN dataset
    ELSE IF dataset # "auto" THEN "invalid"
    ELSE IF before_transition THEN "elspot" ELSE "dayahead"

\* the while loop of lines 158-184; resolved_dataset is the endpoint asked
RECURSIVE PricesLoop(_, _, _, _, _)
PricesLoop(resolved_dataset, answers, retry_limit, retries, events) ==
    IF ~(retries < retry_limit)
    THEN FetchResult("returned_none", None, events)
    ELSE LET status == answers[Requests(events) + 1]
             called == Append(events, CallEvent(resolved_dataset))
         IN  IF status = HttpOk
             THEN FetchResult("returned", status, called)
             ELSE IF ~Retryable(status)
             THEN FetchResult("raised", status, called)
             ELSE IF FetchRetriesExhausted(retries + 1, retry_limit)
             THEN FetchResult("raised", status, called)
             ELSE PricesLoop(resolved_dataset, answers, retry_limit,
                             retries + 1,
                             Append(called, SleepEvent(resolved_dataset)))

get_prices_with_retry(before_transition, dataset, answers, retry_limit) ==
    LET resolved_dataset == resolve_dataset(before_transition, dataset)
    IN  IF resolved_dataset = "invalid"
        THEN FetchResult("value_error", None, <<>>)
        ELSE PricesLoop(resolved_dataset, answers, retry_limit, 0, <<>>)

-----------------------------------------------------------------------------
(* reporting.py, metadata.py: build_reporting_layer *)

\* The data roots a build can be pointed at: "data", the directory that
\* save_to_parquet writes to (DATA_STORAGE_PATH), and "archive", another
\* directory handed over as data_path, which holds one partition file and is
\* never written.
DataPaths == {"data", "archive"}

ArchiveStore == PutFile(<<>>, <<2, 0>>, Written(<<Rec(2, 0, 3)>>))

\* the partitions under a data root
StoreAt(data_path, fs) == IF data_path = "data" THEN fs ELSE ArchiveStore

\* resolved_data_path.exists()
DataPathExists(data_path, root) == data_path = "archive" \/ root

\* base_path.glob("metering_point=*/date=*/consumption_data.parquet")
GlobFiles(data_path, fs) ==
    {key \in DOMAIN StoreAt(data_path, fs) : StoreAt(data_path, fs)[key].exists}

\* a plausible slip: the check of the matches is left out
NeverNotFound(matched) == FALSE

\* if not files: raise FileNotFoundError (_parquet_glob)
NoFilesFound(matched) == matched = {}

\* a plausible slip: the cleaned view is put before the staging view
CleanBeforeStage ==
    <<"meter_data_clean", "meter_data_stage", "daily_consumption",
      "monthly_consumption", "hourly_profile", "missing_data_summary",
      "load_variability", "daily_quality_flags">>

\* the names of the list _view_statements returns, in its order
view_statements ==
    <<"meter_data_stage", "meter_data_clean", "daily_consumption",
      "monthly_consumption", "hourly_profile", "missing_data_summary",
      "load_variability", "daily_quality_flags">>

\* what build_reporting_layer does once the preconditions hold, in order:
\* duckdb.connect, CREATE SCHEMA, the views, load_metadata_table, the
\* metadata-enriched view
build_steps ==
    <<"connect", "schema">> \o view_statements
        \o <<"meter_metadata", "meter_metadata_enriched">>

\* the objects of the schema reporting that the FROM and JOIN clauses of a
\* view name
References(name) ==
    CASE name = "meter_data_clean" -> {"meter_data_stage"}
      [] name = "daily_consumption" -> {"meter_data_clean"}
      [] name = "monthly_consumption" -> {"meter_data_clean"}
      [] name = "hourly_profile" -> {"meter_data_clean"}
      [] name = "missing_data_summary" -> {"meter_data_stage"}
      [] name = "load_variability" -> {"meter_data_clean"}
      [] name = "daily_quality_flags" -> {"daily_consumption"}
      [] name = "meter_metadata_enriched" ->
             {"daily_consumption", "meter_metadata"}
      [] OTHER -> {}

\* the definition a CREATE OR REPLACE VIEW statement gives a view: what it
\* refers to and, for the staging view, the glob it reads
ViewDefinition(name, parquet_glob) ==
    [references |-> References(name),
     read_parquet |-> IF name = "meter_data_stage" THEN parquet_glob
                      ELSE "none"]

\* no file at analytics_db_path
NoDatabase ==
    [exists |-> FALSE, schemas |-> {}, views |-> <<>>, tables |-> <<>>]

\* the views and tables of a database
Objects(db) == DOMAIN db.views \cup DOMAIN db.tables

PutObject(objects, name, object) ==
    [n \in DOMAIN objects \cup {name} |->
        IF n = name THEN object ELSE objects[n]]

\* the rows of build_metadata_frame for the given ids, in sorted order; the
\* name defaults to the id, the other columns are copied
RECURSIVE MetadataRecords(_, _)
MetadataRecords(metering_points, meter_ids) ==
    IF meter_ids = {} THEN <<>>
    ELSE LET meter_id == CHOOSE m \in meter_ids : \A o \in meter_ids : m <= o
         IN  <<[metering_point_id |-> meter_id,
                name |-> IF metering_points[meter_id].name = None
                         THEN meter_id
                         ELSE metering_points[meter_id].name]>>
             \o MetadataRecords(metering_points, meter_ids \ {meter_id})

build_metadata_frame(metering_points) ==
    MetadataRecords(metering_points, DOMAIN metering_points)

\* a plausible slip: the frame is inserted into the table that is there
MergeTable(rows, frame) == rows \o frame

\* CREATE OR REPLACE TABLE ... AS SELECT * FROM meter_metadata_df
ReplaceTable(rows, frame) == frame

\* load_metadata_table(connection, metering_points)
load_metadata_table(db, metering_points) ==
    LET rows == IF "meter_metadata" \in DOMAIN db.tables
                THEN db.tables["meter_metadata"] ELSE <<>>
    IN  [db EXCEPT !.schemas = @ \cup {"reporting"},
                   !.tables = PutObject(@, "meter_metadata",
                                  ReplaceTable(rows,
                                      build_metadata_frame(metering_points)))]

\* what one step of a build does to the database
Execute(db, step, run) ==
    IF step = "connect" THEN [db EXCEPT !.exists = TRUE]
    ELSE IF step = "schema" THEN [db EXCEPT !.schemas = @ \cup {"reporting"}]
    ELSE IF step = "meter_metadata"
    THEN load_metadata_table(db, run.metadata)
    ELSE [db EXCEPT !.views = PutObject(@, step,
                                  ViewDefinition(step, run.parquet_glob))]

\* a plausible slip: CREATE VIEW without OR REPLACE
ConflictsWithAny(db, name) == name \in Objects(db)

\* CREATE OR REPLACE VIEW replaces a view of the name; it raises only when
\* the name is that of a table
Conflicts(db, name) == name \in DOMAIN db.tables

\* DuckDB binds a view when it creates it: the statement raises when the
\* schema or an object it refers to is not there, or when the glob of
\* read_parquet matches no file
BindFails(db, step, run) ==
    /\ step \notin {"connect", "schema", "meter_metadata"}
    /\ \/ "reporting" \notin db.schemas
       \/ Conflicts(db, step)
       \/ ~(References(step) \subseteq Objects(db))
       \/ /\ step = "meter_data_stage"
          /\ GlobFiles(run.parquet_glob, run.files) = {}

\* the objects created so far, in order
Created(created, step) ==
    IF step \in {"connect", "schema"} THEN created ELSE Append(created, step)

\* Lines 266-277, from step i on.  fail_at is the step that raises for a
\* reason outside the program (0: none does).  Every statement is committed
\* when it returns; the finally clause closes the connection.
RECURSIVE BuildLoop(_, _, _, _, _)
BuildLoop(db, steps, i, run, created) ==
    IF i > Len(steps)
    THEN [database |-> db, raised |-> FALSE, created |-> created]
    ELSE IF i = run.fail_at \/ BindFails(db, steps[i], run)
    THEN [database |-> db, raised |-> TRUE, created |-> created]
    ELSE BuildLoop(Execute(db, steps[i], run), steps, i + 1, run,
                   Created(created, steps[i]))

\* config["metering_points"]: load_metering_points rejects an empty mapping
ConfigMeteringPoints == [m \in {1} |-> [name |-> None]]

\* metering_points_override: None, or a mapping
NoOverride == [given |-> FALSE, mapping |-> <<>>]
Override(metering_points) == [given |-> TRUE, mapping |-> metering_points]

\* metering_points_override or config["metering_points"]: None and the
\* empty mapping are both falsy
Metadata(metering_points_override) ==
    IF ~metering_points_override.given
       \/ DOMAIN metering_points_override.mapping = {}
    THEN ConfigMeteringPoints
    ELSE metering_points_override.mapping

\* what a build that ends before duckdb.connect leaves
Unbuilt(result, dir, db) ==
    [result |-> result, analytics_dir |-> dir, database |-> db,
     connected |-> FALSE, created |-> <<>>]

\* build_reporting_layer(data_path=..., metering_points_override=...).  env
\* is what the call finds: the partition files, whether the data root and
\* the directory of the database exist, the database.  call holds the
\* arguments, whether load_config returns (config_ok), and fail_at.
build_reporting_layer(env, call) ==
    LET matched == GlobFiles(call.data_path, env.files)
        run == [parquet_glob |-> call.data_path,
                metadata |-> Metadata(call.metering_points_override),
                files |-> env.files,
                fail_at |-> call.fail_at]
        done == BuildLoop(env.database, build_steps, 1, run, <<>>)
    IN  IF ~call.config_ok
        THEN Unbuilt("ValueError", env.analytics_dir, env.database)
        ELSE IF ~DataPathExists(call.data_path, env.data_root)
        THEN Unbuilt("FileNotFoundError", env.analytics_dir, env.database)
        ELSE IF NoFilesFound(matched)
        THEN Unbuilt("FileNotFoundError", TRUE, env.database)
        ELSE [result |-> IF done.raised THEN "raised" ELSE "returned",
              analytics_dir |-> TRUE,
              database |-> done.database,
              connected |-> call.fail_at # 1,
              created |-> done.created]

\* what a query of the views answers ------------------------------------

\* read_parquet(glob): the rows of the files the glob matches
RECURSIVE ConcatRows(_, _)
ConcatRows(store, keys) ==
    IF keys = <<>> THEN <<>>
    ELSE store[Head(keys)].rows \o ConcatRows(store, Tail(keys))

read_parquet(parquet_glob, fs) ==
    ConcatRows(StoreAt(parquet_glob, fs), SortedKeys(GlobFiles(parquet_glob, fs)))

\* DATE(timezone('UTC', timestamp))
reading_date(r) == r.timestamp \div 24

\* reporting.meter_data_stage
meter_data_stage(db, fs) ==
    read_parquet(db.views["meter_data_stage"].read_parquet, fs)

\* reporting.meter_data_clean: WHERE consumption_value IS NOT NULL AND
\* consumption_value >= 0 (the records save_to_parquet is given hold numbers)
meter_data_clean(db, fs) ==
    SelectSeq(meter_data_stage(db, fs), LAMBDA r : r.consumption_value >= 0)

\* GROUP BY metering_point_id, reading_date
ReadingGroups(rows) ==
    {<<rows[i].metering_point_id, reading_date(rows[i])>> : i \in 1..Len(rows)}

ReadingsOf(rows, group) ==
    SelectSeq(rows, LAMBDA r : <<r.metering_point_id, reading_date(r)>> = group)

\* MAX(consumption_value)
RECURSIVE MaxValue(_)
MaxValue(rows) ==
    IF rows = <<>> THEN 0
    ELSE LET largest == MaxValue(Tail(rows))
         IN  IF Head(rows).consumption_value > largest
             THEN Head(rows).consumption_value
             ELSE largest

\* SUM(consumption_value)
RECURSIVE SumValue(_)
SumValue(rows) ==
    IF rows = <<>> THEN 0
    ELSE Head(rows).consumption_value + SumValue(Tail(rows))

\* a plausible slip: total_kwh is given the column of max_kwh
LargestKwh(rows) == MaxValue(rows)

\* SUM(consumption_value) AS total_kwh
TotalKwh(rows) == SumValue(rows)

\* reporting.daily_consumption (total_kwh and reading_count)
daily_consumption(db, fs) ==
    LET clean == meter_data_clean(db, fs) IN
    {[metering_point_id |-> group[1],
      reading_date |-> group[2],
      total_kwh |-> TotalKwh(ReadingsOf(clean, group)),
      reading_count |-> Len(ReadingsOf(clean, group))] :
        group \in ReadingGroups(clean)}

\* 24 AS expected_readings
expected_readings == 24

\* reporting.missing_data_summary
missing_data_summary(db, fs) ==
    LET stage == meter_data_stage(db, fs) IN
    {[metering_point_id |-> group[1],
      reading_date |-> group[2],
      actual_readings |-> Len(ReadingsOf(stage, group)),
      missing_readings |-> expected_readings - Len(ReadingsOf(stage, group))] :
        group \in ReadingGroups(stage)}

-----------------------------------------------------------------------------
(* Initial states of the parts *)

\* chunk_date_range is not being called on its own
IdleChunk ==
    /\ arg_from = 0
    /\ arg_to = 0
    /\ arg_days = 1
    /\ ret_chunks = <<>>
    /\ returned = FALSE

InitStore ==
    /\ files = <<>>
    /\ observed = 0
    /\ last_records = <<>>
    /\ last_fail_at = 0
    /\ last_result = "none"
    /\ prev_files = <<>>

InitChunk ==
    /\ arg_from \in 0..MaxDay
    /\ arg_to \in 0..MaxDay
    /\ arg_days \in 1..MaxChunkDays
    /\ ret_chunks = <<>>
    /\ returned = FALSE

\* no call of the state table functions was made yet
NoStateCall ==
    [op |-> "none", metering_point_id |-> None, date |-> None,
     write_raises |-> <<>>, attempts |-> 0, raised |-> FALSE,
     initial_backfill_days |-> 0, now_from |-> None, now_to |-> None,
     read_ok |-> TRUE,
     result |-> <<>>]

NoFetchCall ==
    [function |-> "none", before_transition |-> FALSE, dataset |-> "auto",
     answers |-> <<>>, retry_limit |-> 0,
     result |-> FetchResult("none", None, <<>>)]

NoNormCall ==
    [called |-> FALSE, api_response |-> [is_dict |-> TRUE, result |-> <<>>],
     raised |-> FALSE, records |-> <<>>]

\* none of the functions is being called on its own
IdleCalls ==
    /\ state_call = NoStateCall
    /\ state_before = {}
    /\ latest = <<>>
    /\ fetch_call = NoFetchCall
    /\ norm_call = NoNormCall

\* no build was looked at yet
NoReportCall ==
    [config_ok |-> TRUE, data_path |-> "data",
     metering_points_override |-> NoOverride, fail_at |-> 0,
     data_root |-> FALSE, analytics_dir |-> FALSE, before |-> NoDatabase,
     result |-> "none", connected |-> FALSE, created |-> <<>>]

\* build_reporting_layer is not being called
IdleReport ==
    /\ data_root = FALSE
    /\ analytics_dir = FALSE
    /\ database = NoDatabase
    /\ builds = 0
    /\ report_call = NoReportCall

\* nothing was built yet; the data root may be there
InitReport ==
    /\ data_root \in BOOLEAN
    /\ analytics_dir = FALSE
    /\ database = NoDatabase
    /\ builds = 0
    /\ report_call = NoReportCall

-----------------------------------------------------------------------------
(* main.py: main *)

\* config["valid_metering_points"] (and config["metering_point_ids"], the
\* same dict): the tracked ids, in the order of the dict
valid_metering_points == <<1, 2>>

mp_id_set == {valid_metering_points[i] : i \in 1..Len(valid_metering_points)}

\* chunk_date_range(date_from, date_to, chunk_days=90)
main_chunk_days == 90

\* what the API may answer to a request for one metering point and one chunk
EmptyResponse == [is_dict |-> TRUE, result |-> <<>>]

NotAnObject == [is_dict |-> FALSE, result |-> <<>>]

\* one reading of the metering point at the first hour of the chunk
ReadingResponse(metering_point_id, chunk_from) ==
    [is_dict |-> TRUE,
     result |-> <<[success |-> TRUE,
                   TimeSeries |-> <<[mRID |-> metering_point_id,
                                     Period |-> <<[start |-> Num(24 * chunk_from),
                                                   Point |-> <<[position |-> Num(1),
                                                                quantity |-> Num(1)]>>]>>]>>]>>]

\* the result of the response carries the reading but is marked unsuccessful
OnlyUnsuccessful(metering_point_id, chunk_from) ==
    [is_dict |-> TRUE,
     result |-> <<[success |-> FALSE,
                   TimeSeries |->
                       ReadingResponse(metering_point_id,
                                       chunk_from).result[1].TimeSeries]>>]

\* an id that is no value of the configured mapping
UntrackedId == 9

\* the reading is one of a metering point that is not tracked
OnlyUntracked(chunk_from) == ReadingResponse(UntrackedId, chunk_from)

\* the answers from which normalize_api_response makes no record
ZeroReadingResponses(metering_point_id, chunk_from) ==
    {EmptyResponse, OnlyUnsuccessful(metering_point_id, chunk_from),
     OnlyUntracked(chunk_from)}

\* the tracked metering points other than the one asked for
OtherTracked(metering_point_id) == mp_id_set \ {metering_point_id}

\* the API answers with the readings of metering points that were not asked
\* for, which the account has access to as well
ForeignResponses(metering_point_id, chunk_from) ==
    {ReadingResponse(other, chunk_from) : other \in OtherTracked(metering_point_id)}

Responses(metering_point_id, chunk_from) ==
    ZeroReadingResponses(metering_point_id, chunk_from)
        \cup {NotAnObject, ReadingResponse(metering_point_id, chunk_from)}

\* max_retries: int = 3 of get_meter_data_with_retry, which main() leaves
\* at its default
default_max_retries == 3

\* what the API answers to the requests for one chunk: 200 to the first;
\* 429 to the first and 200 from then on; 401 to each; 503 to each
Accepted == [k \in 1..MaxRetryLimit |-> HttpOk]

RateLimitedOnce == [k \in 1..MaxRetryLimit |-> IF k = 1 THEN 429 ELSE HttpOk]

Unauthorized == [k \in 1..MaxRetryLimit |-> 401]

Unavailable == [k \in 1..MaxRetryLimit |-> 503]

\* no call of get_meter_data_with_retry was made yet
NoMainFetch == [answers |-> <<>>, result |-> FetchResult("none", None, <<>>)]

\* the metering point of the current iteration
mp_id == valid_metering_points[mp_index]

\* a plausible slip: the flag starts out set
InitiallyTrue == TRUE

\* chunk_success = False (line 75)
InitialChunkSuccess == FALSE

\* a plausible slip: the run goes on after a setup step failed
SetupFailedFallsThrough(next_pc) == next_pc

\* a plausible slip: main() starts over after a setup step failed
SetupFailedRestarts(next_pc) == "load_config"

\* the return of lines 34, 50 and 57: where main() stands after a setup step
\* raised (next_pc is where it stands after the step went well)
SetupFailed(next_pc) == "done"

\* a plausible slip: break instead of continue
BreakChunks(index, n) == n + 1

\* continue (line 106): the loop over the n chunks goes on with the next one
ContinueChunks(index, n) == index + 1

\* a plausible slip: the run ends with the metering point that failed
BreakEntities(index, n) == n + 1

\* continue (line 122): the loop over the n metering points goes on
ContinueEntities(index, n) == index + 1

\* a plausible slip: the checkpoint is written whatever happened
AlwaysUpdate(success) == TRUE

\* if chunk_success: (line 109)
ShouldUpdate(success) == success

\* a plausible slip: the start of the planned range is written
CheckpointIsDateFrom(planned_from, planned_to) == planned_from

\* update_last_ingestion_date(mp_id, date_to, ...) (line 110): the date
\* written is the end of the range planned at line 67
CheckpointValue(planned_from, planned_to) == planned_to

NoTrace ==
    /\ outcomes = <<>>
    /\ pass_mp = None
    /\ pass_error = FALSE
    /\ entity_errors = {}
    /\ update_calls = 0
    /\ update_written = FALSE
    /\ pass_start_state = ingestion_state
    /\ visited = {}
    /\ fetches = 0
    /\ last_fetch = NoMainFetch
    /\ run_start_state = ingestion_state
    /\ run_start_files = files

\* main() is not running
IdleMain ==
    /\ ingestion_state = {}
    /\ today = RunDay
    /\ pc = "idle"
    /\ run_result = "none"
    /\ mp_index = 1
    /\ date_from = None
    /\ date_to = None
    /\ chunks = <<>>
    /\ chunk_index = 1
    /\ chunk_success = FALSE
    /\ NoTrace

otherVars == <<chunkVars, storeVars, callVars>>

\* the state tables earlier runs of main() may have left: for each tracked
\* metering point no row, or the date of an earlier run
CheckpointDates == {RunDay - CheckpointAge}

PriorStates ==
    UNION {{{Row(m, dates[m]) : m \in ids} : dates \in [ids -> CheckpointDates]} :
           ids \in SUBSET mp_id_set}

\* main() starts, on the state table earlier runs left
Init ==
    /\ IdleChunk
    /\ InitStore
    /\ IdleCalls
    /\ IdleReport
    /\ ingestion_state \in PriorStates
    /\ today = RunDay
    /\ pc = "load_config"
    /\ run_result = "running"
    /\ mp_index = 1
    /\ date_from = None
    /\ date_to = None
    /\ chunks = <<>>
    /\ chunk_index = 1
    /\ chunk_success = FALSE
    /\ NoTrace

\* a setup step (lines 29-57) that went well
SetupStep(at, next_pc) ==
    /\ pc = at
    /\ pc' = next_pc
    /\ UNCHANGED <<reportVars, run_result, mp_index, date_from, date_to, chunks,
                   chunk_index, chunk_success, files, ingestion_state, today,
                   traceVars, otherVars>>

\* a setup step that raised what its except clause catches: logged, return
SetupStepFails(at, next_pc, error) ==
    /\ pc = at
    /\ pc' = SetupFailed(next_pc)
    /\ run_result' = error
    /\ UNCHANGED <<reportVars, mp_index, date_from, date_to, chunks, chunk_index,
                   chunk_success, files, ingestion_state, today, traceVars,
                   otherVars>>

LoadConfig == SetupStep("load_config", "init_state")

\* load_config raises ValueError (lines 31-34)
LoadConfigValueError ==
    SetupStepFails("load_config", "init_state", "config_error")

\* load_config raises something else, or LOG_LEVEL names no level of logging
\* (line 38): nothing catches it
LoadConfigRaises ==
    /\ pc = "load_config"
    /\ pc' = "done"
    /\ run_result' = "raised"
    /\ UNCHANGED <<reportVars, mp_index, date_from, date_to, chunks, chunk_index,
                   chunk_success, files, ingestion_state, today, traceVars,
                   otherVars>>

InitDuckdbState == SetupStep("init_state", "get_token")

\* init_duckdb_state raises (lines 48-50)
InitDuckdbStateRaises ==
    SetupStepFails("init_state", "get_token", "state_error")

GetAccessToken == SetupStep("get_token", "entity")

\* get_access_token raises (lines 55-57)
GetAccessTokenRaises ==
    SetupStepFails("get_token", "entity", "token_error")

\* lines 63-75: get_timeframe and chunk_date_range for the next metering
\* point; the query of the state table may fail, which get_timeframe takes
\* for "no prior ingestion"
PlanEntity ==
    /\ pc = "entity"
    /\ mp_index <= Len(valid_metering_points)
    /\ \E read_ok \in BOOLEAN :
         LET timeframe == get_timeframe(ingestion_state, mp_id, BackfillDays,
                                        today, today, read_ok)
         IN  /\ date_from' = timeframe[1]
             /\ date_to' = timeframe[2]
             /\ chunks' = chunk_date_range(timeframe[1], timeframe[2],
                                           main_chunk_days)
    /\ chunk_index' = 1
    /\ chunk_success' = InitialChunkSuccess
    /\ pc' = "chunk"
    /\ outcomes' = <<>>
    /\ pass_mp' = mp_id
    /\ pass_error' = FALSE
    /\ update_calls' = 0
    /\ update_written' = FALSE
    /\ pass_start_state' = ingestion_state
    /\ visited' = visited \cup {mp_id}
    /\ UNCHANGED <<reportVars, run_result, mp_index, files, ingestion_state, today,
                   entity_errors, fetches, last_fetch, run_start_state,
                   run_start_files,
                   otherVars>>

\* get_timeframe or chunk_date_range raises: the except clause of line 120
\* logs it and the loop goes on with the next metering point
PlanEntityRaises ==
    /\ pc = "entity"
    /\ mp_index <= Len(valid_metering_points)
    /\ mp_index' = ContinueEntities(mp_index, Len(valid_metering_points))
    /\ date_from' = None
    /\ date_to' = None
    /\ chunks' = <<>>
    /\ chunk_index' = 1
    /\ chunk_success' = InitialChunkSuccess
    /\ outcomes' = <<>>
    /\ pass_mp' = mp_id
    /\ pass_error' = TRUE
    /\ entity_errors' = entity_errors \cup {mp_id}
    /\ update_calls' = 0
    /\ update_written' = FALSE
    /\ pass_start_state' = ingestion_state
    /\ visited' = visited \cup {mp_id}
    /\ UNCHANGED <<reportVars, pc, run_result, files, ingestion_state, today,
                   fetches, last_fetch, run_start_state, run_start_files,
                   otherVars>>

\* One iteration of the loop over the chunks (lines 78-106).  answers: what
\* the API answers to the requests of get_meter_data_with_retry, whose body
\* is api_response when the status is 200; fail_at, fail_mode: as in
\* save_to_parquet.  Whatever raises is caught at line 99 and the loop goes
\* on.
ChunkStep(answers, api_response, fail_at, fail_mode) ==
    LET fetched == get_meter_data_with_retry(answers, default_max_retries)
        fetch_ok == fetched.outcome = "returned"
        normalized == normalize_api_response(api_response, mp_id_set)
        saved == save_to_parquet(files, normalized.records, fail_at, fail_mode)
        status == IF ~fetch_ok THEN "fetch_failed"
                  ELSE IF normalized.raised THEN "normalize_failed"
                  ELSE IF saved.raised THEN "store_failed"
                  ELSE "ok"
    IN  /\ pc = "chunk"
        /\ chunk_index <= Len(chunks)
        /\ fetches' = fetches + 1
        /\ last_fetch' = [answers |-> answers, result |-> fetched]
        /\ files' = IF fetch_ok /\ ~normalized.raised THEN saved.files ELSE files
        /\ chunk_success' = IF status = "ok" THEN TRUE ELSE chunk_success
        /\ chunk_index' = IF status = "ok" THEN chunk_index + 1
                          ELSE ContinueChunks(chunk_index, Len(chunks))
        /\ outcomes' = Append(outcomes,
                              [status |-> status,
                               records |-> IF fetch_ok /\ ~normalized.raised
                                           THEN normalized.records ELSE <<>>])
        /\ UNCHANGED <<reportVars, pc, run_result, mp_index, date_from, date_to,
                       chunks, ingestion_state, today, pass_mp, pass_error,
                       entity_errors, update_calls, update_written,
                       pass_start_state, visited, run_start_state,
                       run_start_files, otherVars>>

\* the API call raises: a permanent error at once, or a 503 at every one of
\* the requests
ChunkFetchRaises ==
    \E answers \in {Unauthorized, Unavailable} :
        ChunkStep(answers, EmptyResponse, 0, "before")

\* the API answers, at once or after a 429; nothing outside the program
\* fails in save_to_parquet
ChunkProcessed ==
    /\ pc = "chunk"
    /\ chunk_index <= Len(chunks)
    /\ \E answers \in {Accepted, RateLimitedOnce},
          api_response \in Responses(mp_id, chunks[chunk_index][1]) :
         ChunkStep(answers, api_response, 0, "before")

\* the API answers the first request of the run with the readings of a
\* metering point that was not asked for
ChunkProcessedForeign ==
    /\ pc = "chunk"
    /\ chunk_index <= Len(chunks)
    /\ fetches = 0
    /\ \E api_response \in ForeignResponses(mp_id, chunks[chunk_index][1]) :
         ChunkStep(Accepted, api_response, 0, "before")

\* the API answers with a reading and the write of its partition raises; a
\* directory left without a file is not followed in main(): neither main()
\* nor a later write tells it from a directory that is not there
ChunkStoreRaises ==
    /\ pc = "chunk"
    /\ chunk_index <= Len(chunks)
    /\ \E fail_mode \in FailModes \ {"opening"} :
         ChunkStep(Accepted, ReadingResponse(mp_id, chunks[chunk_index][1]),
                   1, fail_mode)

\* the end of a pass: the loop over the metering points goes on, from line
\* 111 or 113, or by the continue of line 122 when the update raised
NextEntity(raised) ==
    /\ pc' = "entity"
    /\ mp_index' = IF raised
                   THEN ContinueEntities(mp_index, Len(valid_metering_points))
                   ELSE mp_index + 1

\* lines 109-111 after the last chunk: the checkpoint is written; when the
\* third attempt fails too, the except clause of line 120 logs it
CheckpointUpdate ==
    /\ pc = "chunk"
    /\ chunk_index > Len(chunks)
    /\ ShouldUpdate(chunk_success)
    /\ \E write_raises \in WriteOracles :
         LET out == update_last_ingestion_date(ingestion_state, mp_id,
                                               CheckpointValue(date_from, date_to),
                                               write_raises)
         IN  /\ ingestion_state' = out.state
             /\ update_written' = ~out.raised
             /\ pass_error' = out.raised
             /\ entity_errors' = IF out.raised
                                 THEN entity_errors \cup {mp_id}
                                 ELSE entity_errors
             /\ NextEntity(out.raised)
    /\ update_calls' = update_calls + 1
    /\ UNCHANGED <<reportVars, run_result, date_from, date_to, chunks, chunk_index,
                   chunk_success, files, today, outcomes, pass_mp,
                   pass_start_state, visited, fetches, last_fetch, run_start_state,
                   run_start_files, otherVars>>

\* lines 112-118: no chunk succeeded, the state is not updated
CheckpointSkipped ==
    /\ pc = "chunk"
    /\ chunk_index > Len(chunks)
    /\ ~ShouldUpdate(chunk_success)
    /\ NextEntity(FALSE)
    /\ UNCHANGED <<reportVars, run_result, date_from, date_to, chunks, chunk_index,
                   chunk_success, files, ingestion_state, today, traceVars,
                   otherVars>>

\* line 124: every metering point was gone through
Finish ==
    /\ pc = "entity"
    /\ mp_index > Len(valid_metering_points)
    /\ pc' = "done"
    /\ run_result' = IF run_result = "running" THEN "completed" ELSE run_result
    /\ UNCHANGED <<reportVars, mp_index, date_from, date_to, chunks, chunk_index,
                   chunk_success, files, ingestion_state, today, traceVars,
                   otherVars>>

Next ==
    \/ LoadConfig
    \/ LoadConfigValueError
    \/ LoadConfigRaises
    \/ InitDuckdbState
    \/ InitDuckdbStateRaises
    \/ GetAccessToken
    \/ GetAccessTokenRaises
    \/ PlanEntity
    \/ PlanEntityRaises
    \/ ChunkFetchRaises
    \/ ChunkProcessed
    \/ ChunkProcessedForeign
    \/ ChunkStoreRaises
    \/ CheckpointUpdate
    \/ CheckpointSkipped
    \/ Finish

Spec == Init /\ [][Next]_vars

-----------------------------------------------------------------------------
(* SpecStore: save_to_parquet called again and again with arbitrary batches;  *)
(* the last call, and that call made a second time, are recorded            *)

\* the records the batches are made of: two values for one hour and a second
\* hour of the same day of one metering point, and a record of another
\* metering point on another day
RecordPool ==
    {Rec(1, 0, 1), Rec(1, 0, 2), Rec(1, 1, 1), Rec(2, 24, 1)}

Batches == UNION {[1..n -> RecordPool] : n \in 0..MaxBatch}

\* an earlier call, which fills the store; one group's body may raise
SaveToParquet ==
    /\ observed = 0
    /\ \E records \in Batches :
         \/ files' = save_to_parquet(files, records, 0, "before").files
         \/ \E fail_at \in 1..Len(GroupKeys(records)) :
              \E fail_mode \in FailModes :
                files' = save_to_parquet(files, records, fail_at, fail_mode).files
    /\ UNCHANGED <<reportVars, storeVars, chunkVars, ingestion_state, today, mainVars,
                   traceVars, callVars>>

Observe(records, fail_at, fail_mode) ==
    LET out == save_to_parquet(files, records, fail_at, fail_mode) IN
    /\ files' = out.files
    /\ last_result' = IF out.raised THEN "raised" ELSE "returned"
    /\ last_records' = records
    /\ last_fail_at' = fail_at
    /\ prev_files' = files
    /\ observed' = observed + 1
    /\ UNCHANGED <<reportVars, chunkVars, ingestion_state, today, mainVars, traceVars,
                   callVars>>

\* the call looked at, in which nothing outside the program fails
SaveObserved ==
    /\ observed = 0
    /\ \E records \in Batches : Observe(records, 0, "before")

\* the call looked at, in which the body of one group raises
SaveObservedFails ==
    /\ observed = 0
    /\ \E records \in Batches \ {<<>>} :
         \E fail_at \in 1..Len(GroupKeys(records)) :
           \E fail_mode \in FailModes : Observe(records, fail_at, fail_mode)

\* the call looked at returned and is made once more with the same records
SaveAgain ==
    /\ observed = 1
    /\ last_result = "returned"
    /\ Observe(last_records, 0, "before")

NextStore == SaveToParquet \/ SaveObserved \/ SaveObservedFails \/ SaveAgain

\* the store is empty and nothing else runs
StoreInit ==
    /\ InitStore
    /\ IdleChunk
    /\ IdleMain
    /\ IdleCalls
    /\ IdleReport

SpecStore == StoreInit /\ [][NextStore]_vars

-----------------------------------------------------------------------------
(* SpecChunk: chunk_date_range applied to every input within the bounds *)

CallChunkDateRange ==
    /\ ~returned
    /\ ret_chunks' = chunk_date_range(arg_from, arg_to, arg_days)
    /\ returned' = TRUE
    /\ UNCHANGED <<reportVars, arg_from, arg_to, arg_days, files, storeVars,
                   ingestion_state, today, mainVars, traceVars, callVars>>

NextChunk == CallChunkDateRange

\* the arguments are drawn and nothing else runs
ChunkInit ==
    /\ InitChunk
    /\ InitStore
    /\ IdleMain
    /\ IdleCalls
    /\ IdleReport

SpecChunk == ChunkInit /\ [][NextChunk]_vars

-----------------------------------------------------------------------------
(* SpecState: the state table functions called again and again, on a table  *)
(* that init_duckdb_state created empty, while the days pass                *)

\* values of initial_backfill_days
BackfillChoices == {90, BackfillDays}

\* the dates written: those of earlier runs and the day of the call
UpdateDates == CheckpointDates \cup {today}

LatestAfter(metering_point_id, date) ==
    [m \in DOMAIN latest \cup {metering_point_id} |->
        IF m = metering_point_id THEN date ELSE latest[m]]

\* update_last_ingestion_date(metering_point_id, date)
UpdateLastIngestionDate ==
    /\ \E metering_point_id \in mp_id_set, date \in UpdateDates,
          write_raises \in WriteOracles :
         LET out == update_last_ingestion_date(ingestion_state,
                                               metering_point_id, date,
                                               write_raises)
         IN  /\ ingestion_state' = out.state
             /\ state_call' = [NoStateCall EXCEPT
                                  !.op = "update",
                                  !.metering_point_id = metering_point_id,
                                  !.date = date,
                                  !.write_raises = write_raises,
                                  !.attempts = out.attempts,
                                  !.raised = out.raised]
             /\ latest' = IF out.raised THEN latest
                          ELSE LatestAfter(metering_point_id, date)
    /\ state_before' = ingestion_state
    /\ UNCHANGED <<reportVars, chunkVars, files, storeVars, today, mainVars, traceVars,
                   fetch_call, norm_call>>

\* get_timeframe(metering_point_id, initial_backfill_days); midnight may
\* pass between the two reads of the clock
GetTimeframe ==
    /\ \E metering_point_id \in mp_id_set,
          initial_backfill_days \in BackfillChoices,
          read_ok \in BOOLEAN,
          now_to \in {today, today + 1} :
         /\ now_to <= RunDay + MaxClockTicks
         /\ today' = now_to
         /\ state_call' = [NoStateCall EXCEPT
                              !.op = "timeframe",
                              !.metering_point_id = metering_point_id,
                              !.initial_backfill_days = initial_backfill_days,
                              !.now_from = today,
                              !.now_to = now_to,
                              !.read_ok = read_ok,
                              !.result = get_timeframe(ingestion_state,
                                                       metering_point_id,
                                                       initial_backfill_days,
                                                       today, now_to, read_ok)]
    /\ state_before' = ingestion_state
    /\ UNCHANGED <<reportVars, chunkVars, files, storeVars, ingestion_state, mainVars,
                   traceVars, latest, fetch_call, norm_call>>

\* a day passes between two calls
DayPasses ==
    /\ today < RunDay + MaxClockTicks
    /\ today' = today + 1
    /\ UNCHANGED <<reportVars, chunkVars, files, storeVars, ingestion_state, mainVars,
                   traceVars, callVars>>

NextState == UpdateLastIngestionDate \/ GetTimeframe \/ DayPasses

StateInit ==
    /\ IdleChunk
    /\ InitStore
    /\ IdleMain
    /\ IdleCalls
    /\ IdleReport

SpecState == StateInit /\ [][NextState]_vars

-----------------------------------------------------------------------------
(* SpecRuns: the state table over runs of main(), one after another, on    *)
(* the same day or on later days.  Of a run only what touches the table is *)
(* followed: the pass of a metering point plans its range (line 67), its   *)
(* chunks succeed or not, and the checkpoint is written or not (lines      *)
(* 109-118).                                                               *)

\* lines 65-122 for one metering point, from the state table's side.
\* some_chunk_succeeded: the value of chunk_success after the loop over the
\* chunks; midnight may pass between the two clock reads of get_timeframe
Pass(some_chunk_succeeded) ==
    /\ \E metering_point_id \in mp_id_set, read_ok \in BOOLEAN,
          now_to \in {today, today + 1}, write_raises \in WriteOracles :
         LET timeframe == get_timeframe(ingestion_state, metering_point_id,
                                        BackfillDays, today, now_to, read_ok)
             written == CheckpointValue(timeframe[1], timeframe[2])
             out == update_last_ingestion_date(ingestion_state,
                                               metering_point_id, written,
                                               write_raises)
         IN  /\ now_to <= RunDay + MaxClockTicks
             /\ today' = now_to
             /\ ingestion_state' = IF ShouldUpdate(some_chunk_succeeded)
                                   THEN out.state ELSE ingestion_state
             /\ state_call' =
                    IF ShouldUpdate(some_chunk_succeeded)
                    THEN [NoStateCall EXCEPT
                             !.op = "pass",
                             !.metering_point_id = metering_point_id,
                             !.date = written,
                             !.write_raises = write_raises,
                             !.attempts = out.attempts,
                             !.raised = out.raised,
                             !.initial_backfill_days = BackfillDays,
                             !.now_from = today,
                             !.now_to = now_to,
                             !.read_ok = read_ok,
                             !.result = timeframe]
                    ELSE [NoStateCall EXCEPT
                             !.op = "pass",
                             !.metering_point_id = metering_point_id,
                             !.initial_backfill_days = BackfillDays,
                             !.now_from = today,
                             !.now_to = now_to,
                             !.read_ok = read_ok,
                             !.result = timeframe]
    /\ state_before' = ingestion_state
    /\ UNCHANGED <<reportVars, chunkVars, files, storeVars, mainVars, traceVars,
                   latest, fetch_call, norm_call>>

\* a pass in which a chunk succeeded
PassWithSuccess == Pass(TRUE)

\* a pass in which every chunk failed
PassWithoutSuccess == Pass(FALSE)

NextRuns == PassWithSuccess \/ PassWithoutSuccess \/ DayPasses

SpecRuns == StateInit /\ [][NextRuns]_vars

-----------------------------------------------------------------------------
(* SpecFetch: one call of one of the two retrying fetch functions, on any   *)
(* answers of the API                                                      *)

\* the statuses the API answers with
Statuses == {HttpOk, 429, 503, 401, 500}

\* the answers to the requests a call may make
AnswerSeqs == [1..MaxRetryLimit -> Statuses]

\* the dataset argument: the three values accepted and one that is not
Datasets == {"auto", "elspot", "dayahead", "other"}

\* get_meter_data_with_retry(..., max_retries)
CallGetMeterDataWithRetry ==
    /\ fetch_call = NoFetchCall
    /\ \E answers \in AnswerSeqs, retry_limit \in 1..MaxRetryLimit :
         fetch_call' = [NoFetchCall EXCEPT
                          !.function = "get_meter_data_with_retry",
                          !.answers = answers,
                          !.retry_limit = retry_limit,
                          !.result = get_meter_data_with_retry(answers,
                                                               retry_limit)]
    /\ UNCHANGED <<reportVars, chunkVars, files, storeVars, ingestion_state, today,
                   mainVars, traceVars, state_call, state_before, latest,
                   norm_call>>

\* get_prices_with_retry(date_from, ..., dataset, max_retries)
CallGetPricesWithRetry ==
    /\ fetch_call = NoFetchCall
    /\ \E answers \in AnswerSeqs, retry_limit \in 1..MaxRetryLimit,
          before_transition \in BOOLEAN, dataset \in Datasets :
         fetch_call' = [NoFetchCall EXCEPT
                          !.function = "get_prices_with_retry",
                          !.before_transition = before_transition,
                          !.dataset = dataset,
                          !.answers = answers,
                          !.retry_limit = retry_limit,
                          !.result = get_prices_with_retry(before_transition,
                                                           dataset, answers,
                                                           retry_limit)]
    /\ UNCHANGED <<reportVars, chunkVars, files, storeVars, ingestion_state, today,
                   mainVars, traceVars, state_call, state_before, latest,
                   norm_call>>

NextFetch == CallGetMeterDataWithRetry \/ CallGetPricesWithRetry

FetchInit ==
    /\ IdleChunk
    /\ InitStore
    /\ IdleMain
    /\ IdleCalls
    /\ IdleReport

SpecFetch == FetchInit /\ [][NextFetch]_vars

-----------------------------------------------------------------------------
(* SpecNormalize: one call of normalize_api_response with the tracked ids   *)
(* of the configuration, on any response made of the parts below            *)

\* points: two that are well-formed, one with a quantity and one with a
\* position that is no number, one without position, one whose position
\* timedelta cannot hold
PointPool ==
    {[position |-> Num(1), quantity |-> Num(1)],
     [position |-> Num(2), quantity |-> Num(2)],
     [position |-> Num(1), quantity |-> Bad],
     [position |-> Bad, quantity |-> Num(1)],
     [position |-> Missing, quantity |-> Num(1)],
     [position |-> Huge, quantity |-> Num(1)]}

SeqsUpTo(pool, n) == UNION {[1..k -> pool] : k \in 0..n}

Pairs(pool) == {<<x, y>> : x \in pool, y \in pool}

\* the starts of a period: midnight of day 0 or of day 1, none, a string
\* that is no timestamp, a value that is no string
StartPool == {Num(0), Num(24), Missing, Bad, NonString}

Periods == [start : StartPool, Point : SeqsUpTo(PointPool, MaxPoints)]

ShortPeriods == [start : StartPool, Point : SeqsUpTo(PointPool, 1)]

\* the ids of a time series: the tracked ones, an untracked one, none
IdPool == mp_id_set \cup {UntrackedId, None}

Series ==
    [mRID : IdPool,
     Period : SeqsUpTo(Periods, 1)
                  \cup {<<x, y>> : x \in ShortPeriods, y \in Periods}]

ShortSeries == [mRID : IdPool, Period : SeqsUpTo(ShortPeriods, 1)]

Results ==
    [success : BOOLEAN, TimeSeries : SeqsUpTo(Series, 1) \cup Pairs(ShortSeries)]

ShortResults == [success : BOOLEAN, TimeSeries : SeqsUpTo(ShortSeries, 1)]

ApiResponses ==
    {[is_dict |-> FALSE, result |-> <<>>]}
        \cup [is_dict : {TRUE},
              result : SeqsUpTo(Results, 1) \cup Pairs(ShortResults)]

\* normalize_api_response(api_response, config["metering_point_ids"])
CallNormalizeApiResponse ==
    /\ norm_call = NoNormCall
    /\ \E api_response \in ApiResponses :
         LET out == normalize_api_response(api_response, mp_id_set)
         IN  norm_call' = [called |-> TRUE, api_response |-> api_response,
                           raised |-> out.raised, records |-> out.records]
    /\ UNCHANGED <<reportVars, chunkVars, files, storeVars, ingestion_state, today,
                   mainVars, traceVars, state_call, state_before, latest,
                   fetch_call>>

NextNormalize == CallNormalizeApiResponse

NormalizeInit ==
    /\ IdleChunk
    /\ InitStore
    /\ IdleMain
    /\ IdleCalls
    /\ IdleReport

SpecNormalize == NormalizeInit /\ [][NextNormalize]_vars

-----------------------------------------------------------------------------
(* SpecReport: the pipeline writes readings to the store and the reporting  *)
(* layer is built again and again; the last build, and that build made a   *)
(* second time, are recorded                                                *)

\* a period of one day: positions 1..24 with the quantities 1..24
FullDayPoints == [p \in 1..24 |-> [position |-> Num(p), quantity |-> Num(p)]]

\* a period of two points, the second of a negative quantity
ShortDayPoints ==
    <<[position |-> Num(1), quantity |-> Num(5)],
      [position |-> Num(2), quantity |-> Num(0 - 1)]>>

\* the response that holds one period of one metering point
PeriodResponse(metering_point_id, day, points) ==
    [is_dict |-> TRUE,
     result |-> <<[success |-> TRUE,
                   TimeSeries |-> <<[mRID |-> metering_point_id,
                                     Period |-> <<[start |-> Num(24 * day),
                                                   Point |-> points]>>]>>]>>]

\* what the pipeline fetches between the builds
ReportResponses ==
    {PeriodResponse(1, 0, FullDayPoints), PeriodResponse(2, 0, ShortDayPoints)}

\* a mapping handed over as metering_points_override
OtherMeteringPoints ==
    [m \in {2, 3} |-> [name |-> IF m = 2 THEN 7 ELSE None]]

Overrides == {NoOverride, Override(<<>>), Override(OtherMeteringPoints)}

\* the calls of build_reporting_layer, and what happens around them
BuildCalls ==
    {call \in [config_ok : BOOLEAN, data_path : DataPaths,
               metering_points_override : Overrides,
               fail_at : 0..Len(build_steps)] :
        ~call.config_ok =>
            /\ call.data_path = "data"
            /\ call.metering_points_override = NoOverride
            /\ call.fail_at = 0}

\* what a build finds
Env ==
    [files |-> files, data_root |-> data_root,
     analytics_dir |-> analytics_dir, database |-> database]

\* a chunk of main(): the response is normalized and its records are
\* written; save_to_parquet makes the data root with the first partition
Ingest ==
    /\ builds = 0
    /\ \E api_response \in ReportResponses, fail_at \in 0..1,
          fail_mode \in FailModes :
         LET records == normalize_api_response(api_response, mp_id_set).records
             out == save_to_parquet(files, records, fail_at, fail_mode)
         IN  /\ files' = out.files
             /\ data_root' = (data_root \/ Directories(out.files) # {})
    /\ UNCHANGED <<analytics_dir, database, builds, report_call, chunkVars,
                   storeVars, ingestion_state, today, mainVars, traceVars,
                   callVars>>

\* an earlier build
BuildEarlier ==
    /\ builds = 0
    /\ \E call \in BuildCalls :
         LET out == build_reporting_layer(Env, call)
         IN  /\ database' = out.database
             /\ analytics_dir' = out.analytics_dir
    /\ UNCHANGED <<data_root, builds, report_call, chunkVars, files,
                   storeVars, ingestion_state, today, mainVars, traceVars,
                   callVars>>

Build(call) ==
    LET out == build_reporting_layer(Env, call) IN
    /\ database' = out.database
    /\ analytics_dir' = out.analytics_dir
    /\ builds' = builds + 1
    /\ report_call' =
           [config_ok |-> call.config_ok, data_path |-> call.data_path,
            metering_points_override |-> call.metering_points_override,
            fail_at |-> call.fail_at,
            data_root |-> data_root, analytics_dir |-> analytics_dir,
            before |-> database,
            result |-> out.result, connected |-> out.connected,
            created |-> out.created]
    /\ UNCHANGED <<data_root, chunkVars, files, storeVars, ingestion_state,
                   today, mainVars, traceVars, callVars>>

\* the build looked at
BuildObserved ==
    /\ builds = 0
    /\ \E call \in BuildCalls : Build(call)

\* the build looked at returned and is made once more with the same
\* arguments, and nothing outside the program fails
BuildAgain ==
    /\ builds = 1
    /\ report_call.result = "returned"
    /\ Build([config_ok |-> TRUE, data_path |-> report_call.data_path,
              metering_points_override |->
                  report_call.metering_points_override,
              fail_at |-> 0])

NextReport == Ingest \/ BuildEarlier \/ BuildObserved \/ BuildAgain

\* the store is empty, nothing was built and nothing else runs
ReportInit ==
    /\ InitStore
    /\ InitReport
    /\ IdleChunk
    /\ IdleMain
    /\ IdleCalls

SpecReport == ReportInit /\ [][NextReport]_vars

-----------------------------------------------------------------------------
(* Claims about main() (Spec) *)

\* the pass of pass_mp is over: main() is back at the head of the loop over
\* the metering points, or past it
PassFinished == pass_mp # None /\ pc \in {"entity", "done"}

SomeChunkSucceeded == \E i \in 1..Len(outcomes) : outcomes[i].status = "ok"

\* the row of a metering point in a state table (None: no row)
CheckpointOf(state, metering_point_id) ==
    IF \E row \in state : row.metering_point_id = metering_point_id
    THEN (CHOOSE row \in state :
              row.metering_point_id = metering_point_id).last_ingestion_date
    ELSE None

SetupErrors == {"config_error", "state_error", "token_error"}

\* C1: in the pass of a metering point update_last_ingestion_date is called
\* if and only if one of its chunks was fetched, normalized and stored
\* without raising; when none was, its checkpoint is as it was when main()
\* started.
C1_UpdateIffChunkSucceeded ==
    PassFinished =>
        /\ update_calls >= 1 <=> SomeChunkSucceeded
        /\ ~SomeChunkSucceeded =>
               CheckpointOf(ingestion_state, pass_mp)
                   = CheckpointOf(run_start_state, pass_mp)

\* a pass in which every chunk failed, of a metering point that had a
\* checkpoint: no call, and the checkpoint is the one it had
C1_Witness ==
    /\ PassFinished
    /\ outcomes # <<>>
    /\ ~SomeChunkSucceeded
    /\ update_calls = 0
    /\ CheckpointOf(run_start_state, pass_mp) # None
    /\ CheckpointOf(ingestion_state, pass_mp)
           = CheckpointOf(run_start_state, pass_mp)

\* the records of chunk i of the current pass are rows of their partitions
Stored(i) ==
    \A k \in 1..Len(outcomes[i].records) :
        LET r == outcomes[i].records[k] IN
        /\ PartitionKey(r) \in DOMAIN files
        /\ files[PartitionKey(r)].readable
        /\ \E n \in 1..Len(files[PartitionKey(r)].rows) :
               files[PartitionKey(r)].rows[n] = r

\* C2: a chunk that raises does not end the loop over the chunks: every
\* chunk of the metering point is attempted, in order, and the records of
\* every chunk that succeeded are stored.
C2_ChunkFailureIsolated ==
    /\ (pc = "chunk" /\ chunk_index <= Len(chunks)) =>
           Len(outcomes) = chunk_index - 1
    /\ (pass_mp # None /\ (pc # "chunk" \/ chunk_index > Len(chunks))) =>
           Len(outcomes) = Len(chunks)
    /\ \A i \in 1..Len(outcomes) : outcomes[i].status = "ok" => Stored(i)

\* chunk 2 of 3 failed; chunks 1 and 3 were fetched and their records written
C2_Witness ==
    /\ PassFinished
    /\ Len(chunks) = 3
    /\ Len(outcomes) = 3
    /\ outcomes[1].status = "ok" /\ outcomes[1].records # <<>> /\ Stored(1)
    /\ outcomes[2].status # "ok"
    /\ outcomes[3].status = "ok" /\ outcomes[3].records # <<>> /\ Stored(3)

\* C3: an exception of get_timeframe, chunk_date_range or
\* update_last_ingestion_date ends the pass of its metering point only:
\* main() does not raise, goes on with the next metering point, and has
\* processed every tracked metering point when it ends.
C3_EntityFailureIsolated ==
    /\ entity_errors # {} => run_result \in {"running", "completed"}
    /\ (pass_error /\ pc = "entity") =>
           \E i \in 1..Len(valid_metering_points) :
               valid_metering_points[i] = pass_mp /\ mp_index = i + 1
    /\ (pc = "done" /\ run_result = "completed") => visited = mp_id_set

\* the pass of the first metering point ended in the except clause of line
\* 120, and the second one was processed and its checkpoint written
C3_Witness ==
    /\ pc = "done"
    /\ run_result = "completed"
    /\ valid_metering_points[1] \in entity_errors
    /\ pass_mp = valid_metering_points[2]
    /\ update_written

\* C4 as stated: the checkpoint is written only after a pass in which every
\* chunk of the planned range was fetched, normalized and stored.
C4_Original ==
    update_written =>
        /\ Len(outcomes) = Len(chunks)
        /\ \A i \in 1..Len(outcomes) : outcomes[i].status = "ok"

\* C4 amended: the checkpoint is written only after a pass in which at
\* least one chunk of the planned range was fetched, normalized and stored.
C4_WrittenOnlyAfterSuccess ==
    update_written =>
        /\ Len(outcomes) = Len(chunks)
        /\ SomeChunkSucceeded

\* the checkpoint was written after a pass with a failed chunk
C4_Witness ==
    /\ update_written
    /\ SomeChunkSucceeded
    /\ \E i \in 1..Len(outcomes) : outcomes[i].status # "ok"
    /\ CheckpointOf(ingestion_state, pass_mp) = date_to

\* C5: when load_config raises ValueError, or init_duckdb_state or
\* get_access_token raises, main() has returned: no metering point was
\* planned, nothing was fetched, no partition and no checkpoint written.
C5_SetupFailureAborts ==
    run_result \in SetupErrors =>
        /\ pc = "done"
        /\ visited = {}
        /\ pass_mp = None
        /\ date_from = None /\ date_to = None /\ chunks = <<>>
        /\ fetches = 0
        /\ update_calls = 0
        /\ files = run_start_files
        /\ ingestion_state = run_start_state

\* get_access_token raised after the two steps before it went well, on a
\* state table that holds checkpoints
C5_Witness ==
    /\ run_result = "token_error"
    /\ pc = "done"
    /\ ingestion_state # {}

-----------------------------------------------------------------------------
(* Claims about chunk_date_range (SpecChunk) *)

RangeDays == arg_to - arg_from + 1

CeilDiv(a, b) == (a + (b - 1)) \div b

ChunkDays(c) == c[2] - c[1] + 1

\* C9: for date_from <= date_to and chunk_days >= 1 the returned chunks are
\* ordered pairs with chunk_from <= chunk_to, the first starts at date_from,
\* the last ends at date_to, and each chunk starts the day after the one
\* before it ends: they cover [date_from, date_to] with no gap or overlap.
C9_ChunksCoverRange ==
    (returned /\ arg_from <= arg_to) =>
        /\ Len(ret_chunks) >= 1
        /\ ret_chunks[1][1] = arg_from
        /\ ret_chunks[Len(ret_chunks)][2] = arg_to
        /\ \A i \in 1..Len(ret_chunks) : ret_chunks[i][1] <= ret_chunks[i][2]
        /\ \A i \in 1..(Len(ret_chunks) - 1) :
               ret_chunks[i][2] + 1 = ret_chunks[i + 1][1]

\* a call that returned three or more chunks, the last one clipped to date_to
C9_Witness ==
    /\ returned
    /\ arg_from <= arg_to
    /\ Len(ret_chunks) >= 3
    /\ ChunkDays(ret_chunks[Len(ret_chunks)]) < arg_days

\* the chunk count and the chunk lengths claimed by C10
ChunkCountAsClaimed ==
    /\ RangeDays <= arg_days => Len(ret_chunks) = 1
    /\ RangeDays > arg_days => Len(ret_chunks) = CeilDiv(RangeDays, arg_days)
    /\ \A i \in 1..(Len(ret_chunks) - 1) : ChunkDays(ret_chunks[i]) = arg_days

\* C10 as stated: for all (date_from, date_to, chunk_days) there is exactly
\* one chunk when the inclusive range length is <= chunk_days and
\* ceil(length / chunk_days) chunks otherwise, all but the last of
\* chunk_days days.
C10_Original == returned => ChunkCountAsClaimed

\* C10 amended: the same, for date_from <= date_to and chunk_days >= 1 (a
\* reversed range yields no chunk at all).
C10_ChunkCount == (returned /\ arg_from <= arg_to) => ChunkCountAsClaimed

\* a call whose range is not a multiple of chunk_days and needs several chunks
C10_Witness ==
    /\ returned
    /\ arg_from <= arg_to
    /\ RangeDays > arg_days
    /\ RangeDays % arg_days # 0
    /\ Len(ret_chunks) = CeilDiv(RangeDays, arg_days)

-----------------------------------------------------------------------------
(* Claims about save_to_parquet (SpecStore) *)

\* how often row r occurs in rows
Count(r, rows) == Cardinality({i \in 1..Len(rows) : rows[i] = r})

RowsOf(fs, key) == IF key \in DOMAIN fs THEN fs[key].rows ELSE <<>>

KeysOf(records) == {PartitionKey(records[i]) : i \in 1..Len(records)}

\* the rows of existing whose timestamp does not occur in group
Surviving(existing, group) ==
    SelectSeq(existing, LAMBDA r : \A i \in 1..Len(group) :
                                      group[i].timestamp # r.timestamp)

\* C6: after a call that returned, the partition of every incoming group B
\* holds exactly the rows of B plus the rows it held before whose timestamp
\* does not occur in B (so an incoming row replaces every existing row of
\* its timestamp).
C6_MergeOnTimestamp ==
    (observed >= 1 /\ last_result = "returned") =>
        \A key \in KeysOf(last_records) :
            LET B == GroupOf(last_records, key)
                A == RowsOf(prev_files, key)
                now == RowsOf(files, key)
            IN  /\ key \in DOMAIN files
                /\ files[key].readable
                /\ Len(now) = Len(B) + Len(Surviving(A, B))
                /\ \A i \in 1..Len(now) :
                       Count(now[i], now) =
                           Count(now[i], B) + Count(now[i], Surviving(A, B))

\* a call that returned after replacing a row of a partition by an incoming
\* row of another value and keeping another row of that partition
C6_Witness ==
    /\ observed = 1
    /\ last_result = "returned"
    /\ \E key \in DOMAIN prev_files :
         LET B == GroupOf(last_records, key)
             A == prev_files[key].rows
         IN  /\ \E i \in 1..Len(A), j \in 1..Len(B) :
                   /\ A[i].timestamp = B[j].timestamp
                   /\ A[i].consumption_value # B[j].consumption_value
             /\ Surviving(A, B) # <<>>

\* C7: a call that returned, made a second time with the same records,
\* leaves every partition as the first call left it.
C7_WriteIdempotent ==
    (observed = 2 /\ last_result = "returned") => files = prev_files

\* the second of two calls with the same records has returned; the records
\* went to a partition that held other rows before, and to a second one
C7_Witness ==
    /\ observed = 2
    /\ last_result = "returned"
    /\ Cardinality(KeysOf(last_records)) >= 2
    /\ \E key \in KeysOf(last_records) :
         Len(files[key].rows) > Len(GroupOf(last_records, key))

\* C8: every partition file holds at most one row per (metering point,
\* timestamp).
C8_OneRowPerTimestamp ==
    \A key \in DOMAIN files :
        \A i, j \in 1..Len(files[key].rows) :
            (/\ files[key].rows[i].metering_point_id
                  = files[key].rows[j].metering_point_id
             /\ files[key].rows[i].timestamp = files[key].rows[j].timestamp)
            => i = j

\* r is a row of the file of partition key
RowOf(r, fs, key) ==
    /\ FileExists(fs, key)
    /\ \E n \in 1..Len(fs[key].rows) : fs[key].rows[n] = r

\* the partition a record belongs to: its metering point and its date
OwnPartition(r) == <<r.metering_point_id, consumption_date(r)>>

\* C21: a call with an empty list of records returns, and leaves every
\* partition directory and every partition file as it was: none is made,
\* none is changed.
C21_EmptyListNoOp ==
    (observed >= 1 /\ last_records = <<>>) =>
        /\ last_result = "returned"
        /\ Directories(files) = Directories(prev_files)
        /\ \A key \in Directories(files) : files[key] = prev_files[key]

\* a call with an empty list on a store that holds a written partition and
\* lacks the directory of another
C21_Witness ==
    /\ observed = 1
    /\ last_records = <<>>
    /\ \E key \in Directories(files) : files[key].readable
    /\ \E r \in RecordPool : OwnPartition(r) \notin Directories(files)

\* C22: a call returns only when every record of its input is a row of the
\* readable file of its partition and no write of the call left a file that
\* cannot be read or a directory without a file; otherwise it raised.
C22_FailureRaises ==
    (observed >= 1 /\ last_result = "returned") =>
        /\ \A i \in 1..Len(last_records) :
               /\ RowOf(last_records[i], files, OwnPartition(last_records[i]))
               /\ files[OwnPartition(last_records[i])].readable
        /\ \A key \in Directories(files) :
               ~files[key].readable =>
                   /\ key \in Directories(prev_files)
                   /\ prev_files[key] = files[key]

\* a call raised at its second group: a record of the first group was
\* written, a record of the second was not
C22_Witness ==
    /\ observed = 1
    /\ last_result = "raised"
    /\ \E i, j \in 1..Len(last_records) :
         /\ RowOf(last_records[i], files, OwnPartition(last_records[i]))
         /\ ~RowOf(last_records[i], prev_files, OwnPartition(last_records[i]))
         /\ ~RowOf(last_records[j], files, OwnPartition(last_records[j]))

\* C28: the rows of every partition file are in ascending order of
\* timestamp.
C28_RowsSorted ==
    \A key \in Directories(files) :
        \A i, j \in 1..Len(files[key].rows) :
            i < j => files[key].rows[i].timestamp <= files[key].rows[j].timestamp

\* a call returned that brought an hour earlier than one the partition held
\* and kept, so that the concatenated frame was not in order
C28_Witness ==
    /\ observed = 1
    /\ last_result = "returned"
    /\ \E key \in KeysOf(last_records) :
         /\ FileExists(prev_files, key)
         /\ \E n \in 1..Len(prev_files[key].rows) :
              LET old == prev_files[key].rows[n] IN
              /\ RowOf(old, files, key)
              /\ \E i \in 1..Len(last_records) :
                   /\ OwnPartition(last_records[i]) = key
                   /\ last_records[i].timestamp < old.timestamp

\* C29: every row of the file of a partition has the metering point and the
\* date of the partition, and after a call that returned every record of its
\* input is a row of the file of its own partition and of no other file.
C29_PartitionKeyConsistent ==
    /\ \A key \in Directories(files) :
           \A n \in 1..Len(files[key].rows) :
               /\ files[key].rows[n].metering_point_id = key[1]
               /\ consumption_date(files[key].rows[n]) = key[2]
    /\ (observed >= 1 /\ last_result = "returned") =>
           \A i \in 1..Len(last_records) :
               /\ OwnPartition(last_records[i]) \in Directories(files)
               /\ \A key \in Directories(files) :
                      RowOf(last_records[i], files, key)
                          <=> key = OwnPartition(last_records[i])

\* a call returned whose records went to the partitions of two metering
\* points and two dates
C29_Witness ==
    /\ observed = 1
    /\ last_result = "returned"
    /\ \E i, j \in 1..Len(last_records) :
         /\ last_records[i].metering_point_id # last_records[j].metering_point_id
         /\ consumption_date(last_records[i]) # consumption_date(last_records[j])
         /\ RowOf(last_records[i], files, OwnPartition(last_records[i]))
         /\ RowOf(last_records[j], files, OwnPartition(last_records[j]))

\* C30: a call never leaves a file that cannot be read where there was none
\* or a readable one: a write that fails leaves the file as it was.
C30_AtomicWrite ==
    observed >= 1 =>
        \A key \in Directories(files) :
            (files[key].exists /\ ~files[key].readable) =>
                /\ FileExists(prev_files, key)
                /\ prev_files[key] = files[key]

-----------------------------------------------------------------------------
(* Claims about the state table and get_timeframe (SpecState) *)

LatestOf(metering_point_id) ==
    IF metering_point_id \in DOMAIN latest THEN latest[metering_point_id]
    ELSE None

\* the attempts of the last call that raise, among those the code may make
AllAttemptsRaise ==
    \A k \in 1..max_retries : state_call.write_raises[k]

FirstAttemptWritten ==
    CHOOSE k \in 1..max_retries :
        /\ ~state_call.write_raises[k]
        /\ \A j \in 1..(k - 1) : state_call.write_raises[j]

\* C11: get_timeframe returns to = the current UTC date; from = to -
\* initial_backfill_days when the metering point has no checkpoint, and
\* from = checkpoint - 7 days when it has one, whatever
\* initial_backfill_days is (the state table being readable)
C11_TimeframeAsClaimed ==
    (state_call.op = "timeframe" /\ state_call.read_ok) =>
        LET rows == RowsOfPoint(state_before, state_call.metering_point_id)
            date_from_returned == state_call.result[1]
            date_to_returned == state_call.result[2]
        IN  /\ date_to_returned = state_call.now_to
            /\ rows = {} =>
                   date_from_returned
                       = date_to_returned - state_call.initial_backfill_days
            /\ \A row \in rows :
                   date_from_returned = row.last_ingestion_date - OverlapDays

\* what does hold of get_timeframe: the same, with the backfill counted
\* from the date the clock showed when it was read first
TimeframeAsComputed ==
    (state_call.op = "timeframe" /\ state_call.read_ok) =>
        LET rows == RowsOfPoint(state_before, state_call.metering_point_id)
        IN  /\ state_call.result[2] = state_call.now_to
            /\ rows = {} =>
                   state_call.result[1]
                       = state_call.now_from - state_call.initial_backfill_days
            /\ \A row \in rows :
                   state_call.result[1] = row.last_ingestion_date - OverlapDays

\* C14: update_last_ingestion_date makes at most 3 attempts; it returns
\* after the first attempt that succeeds, making no further attempt, and
\* when all 3 attempts fail it raises after exactly 3 attempts
C14_UpdateRetriesBounded ==
    state_call.op = "update" =>
        /\ state_call.attempts <= 3
        /\ AllAttemptsRaise =>
               /\ state_call.raised
               /\ state_call.attempts = 3
               /\ ingestion_state = state_before
        /\ ~AllAttemptsRaise =>
               /\ ~state_call.raised
               /\ state_call.attempts = FirstAttemptWritten
               /\ Row(state_call.metering_point_id, state_call.date)
                      \in ingestion_state

\* a call whose first attempt failed and whose second went well, and the
\* third would have failed
C14_Witness ==
    /\ state_call.op = "update"
    /\ state_call.write_raises = <<TRUE, FALSE, TRUE>>
    /\ state_call.attempts = 2
    /\ ~state_call.raised

\* C16: after any sequence of checkpoint updates the table holds at most one
\* row per metering point, get_last_ingestion_date returns the date of the
\* most recent update of the metering point that succeeded (None if there
\* was none), and an update leaves the rows of every other metering point
\* as they were
C16_OneRowPerEntity ==
    /\ \A m \in mp_id_set :
          /\ Cardinality(RowsOfPoint(ingestion_state, m)) <= 1
          /\ get_last_ingestion_date(ingestion_state, m, TRUE) = LatestOf(m)
    /\ state_call.op = "update" =>
          \A m \in mp_id_set \ {state_call.metering_point_id} :
              RowsOfPoint(ingestion_state, m) = RowsOfPoint(state_before, m)

\* an update replaced the date of a metering point by another date while
\* another metering point had a row
C16_Witness ==
    /\ state_call.op = "update"
    /\ ~state_call.raised
    /\ \E row \in state_before :
          /\ row.metering_point_id = state_call.metering_point_id
          /\ row.last_ingestion_date # state_call.date
    /\ \E row \in ingestion_state :
          row.metering_point_id # state_call.metering_point_id

-----------------------------------------------------------------------------
(* Claims about the retrying fetch functions (SpecFetch) *)

\* the last call made requests
Fetched == fetch_call.function # "none" /\ fetch_call.result.events # <<>>

Pauses(events) ==
    Cardinality({k \in 1..Len(events) : events[k].kind = "sleep"})

\* every answer the call could get was a 429 or a 503
OnlyTransientAnswers ==
    \A k \in 1..fetch_call.retry_limit : fetch_call.answers[k] \in {429, 503}

\* C12: get_meter_data_with_retry, on a 429 or 503 answer, pauses 60
\* seconds and asks again; it makes at most max_retries requests, and when
\* every answer is a 429 or 503 it raises the HTTP error after exactly
\* max_retries requests and max_retries - 1 pauses; get_prices_with_retry
\* does the same
C12_RetryOnTransient ==
    Fetched =>
        LET events == fetch_call.result.events
            retry_limit == fetch_call.retry_limit
        IN  /\ Requests(events) <= retry_limit
            /\ \A k \in 1..Len(events) :
                  IF k % 2 = 1
                  THEN events[k].kind = "call"
                  ELSE /\ events[k].kind = "sleep"
                       /\ events[k].seconds = 60
                       /\ fetch_call.answers[k \div 2] \in {429, 503}
                       /\ k < Len(events)
            /\ \A k \in 1..(Requests(events) - 1) :
                  fetch_call.answers[k] \in {429, 503}
            /\ fetch_call.result.outcome \in {"returned", "raised"}
            /\ fetch_call.result.outcome = "returned" <=>
                  fetch_call.answers[Requests(events)] = HttpOk
            /\ OnlyTransientAnswers =>
                  /\ fetch_call.result.outcome = "raised"
                  /\ fetch_call.result.status \in {429, 503}
                  /\ Requests(events) = retry_limit
                  /\ Pauses(events) = retry_limit - 1

\* a call of get_prices_with_retry that was answered 429, 503 and 429 and
\* gave up
C12_Witness ==
    /\ fetch_call.function = "get_prices_with_retry"
    /\ fetch_call.retry_limit = 3
    /\ fetch_call.answers[1] = 429
    /\ fetch_call.answers[2] = 503
    /\ fetch_call.answers[3] = 429
    /\ fetch_call.result.outcome = "raised"
    /\ Requests(fetch_call.result.events) = 3
    /\ Pauses(fetch_call.result.events) = 2

-----------------------------------------------------------------------------
(* Claims about main() and its fetches and checkpoints (Spec) *)

LastOutcome == outcomes[Len(outcomes)]

\* the first answer to the last fetch of the current pass was a permanent
\* error
PermanentErrorAnswered ==
    /\ outcomes # <<>>
    /\ last_fetch.answers[1] \notin {HttpOk, 429, 503}

\* C13: an HTTP status other than 429 and 503 is not retried:
\* get_meter_data_with_retry makes one request, does not pause and raises
\* the error, and main() counts the chunk as failed
C13_PermanentErrorNotRetried ==
    PermanentErrorAnswered =>
        /\ Requests(last_fetch.result.events) = 1
        /\ Pauses(last_fetch.result.events) = 0
        /\ last_fetch.result.outcome = "raised"
        /\ last_fetch.result.status = last_fetch.answers[1]
        /\ LastOutcome.status = "fetch_failed"
        /\ LastOutcome.records = <<>>
        /\ chunk_success <=>
              \E i \in 1..(Len(outcomes) - 1) : outcomes[i].status = "ok"

\* the second chunk of a metering point was answered 401 after the first
\* had succeeded
C13_Witness ==
    /\ Len(outcomes) = 2
    /\ outcomes[1].status = "ok"
    /\ last_fetch.answers = Unauthorized
    /\ last_fetch.result.status = 401
    /\ LastOutcome.status = "fetch_failed"
    /\ chunk_success

\* update_last_ingestion_date raised at the end of the current pass
CheckpointWriteFailed ==
    /\ PassFinished
    /\ pass_error
    /\ update_calls = 1

\* the days from this run to the next
DaysToNextRun == 0..MaxClockTicks

\* date_from as the next run plans it for the metering point of the pass,
\* when it starts on day now and can read the state table
NextRunFrom(now) ==
    get_timeframe(ingestion_state, pass_mp, BackfillDays, now, now, TRUE)[1]

\* what stays when the checkpoint write failed: the partitions written in
\* the pass, and the state table
KeptAfterWriteFailure ==
    /\ \A i \in 1..Len(outcomes) : outcomes[i].status = "ok" => Stored(i)
    /\ ingestion_state = pass_start_state
    /\ CheckpointOf(ingestion_state, pass_mp)
          = CheckpointOf(run_start_state, pass_mp)

\* C15: if update_last_ingestion_date fails after its retries, every
\* partition written during that pass remains stored, the checkpoint of
\* the metering point keeps its previous value, and the next run plans the
\* same date_from for it as this run did
C15_Original ==
    CheckpointWriteFailed =>
        /\ KeptAfterWriteFailure
        /\ \A days \in DaysToNextRun : NextRunFrom(today + days) = date_from

\* C15 as amended: if update_last_ingestion_date fails after its retries,
\* every partition written during that pass remains stored and the
\* checkpoint keeps its previous value; the next run plans from that same
\* checkpoint: from the checkpoint less 7 days if there is one, which is
\* the date_from of this run if this run could read it, and else from its
\* own day less the backfill days, which is the date_from of this run only
\* if it runs on the same day
C15_AtLeastOnce ==
    CheckpointWriteFailed =>
        /\ KeptAfterWriteFailure
        /\ \A days \in DaysToNextRun :
              LET previous == CheckpointOf(pass_start_state, pass_mp)
              IN  IF previous # None
                  THEN /\ NextRunFrom(today + days) = previous - OverlapDays
                       /\ date_from \in {previous - OverlapDays,
                                          today - BackfillDays}
                  ELSE /\ NextRunFrom(today + days)
                             = (today + days) - BackfillDays
                       /\ date_from = today - BackfillDays

\* the write failed for a metering point that had a checkpoint, after a
\* pass that stored a reading
C15_Witness ==
    /\ CheckpointWriteFailed
    /\ CheckpointOf(pass_start_state, pass_mp) # None
    /\ date_from = CheckpointOf(pass_start_state, pass_mp) - OverlapDays
    /\ \E i \in 1..Len(outcomes) :
          /\ outcomes[i].status = "ok"
          /\ outcomes[i].records # <<>>
          /\ Stored(i)

-----------------------------------------------------------------------------
(* Claims about normalize_api_response (SpecNormalize) *)

\* the call was made and the response was a JSON object
Normalized == norm_call.called /\ norm_call.api_response.is_dict

ResultList == norm_call.api_response.result

\* the places of the points of the response: result, time series, period,
\* point
PointPaths ==
    UNION {UNION {UNION {
        {<<i, j, k, l>> :
            l \in 1..Len(ResultList[i].TimeSeries[j].Period[k].Point)} :
        k \in 1..Len(ResultList[i].TimeSeries[j].Period)} :
        j \in 1..Len(ResultList[i].TimeSeries)} :
        i \in 1..Len(ResultList)}

\* the places of the periods, written as the place before their first point
PeriodPaths ==
    UNION {UNION {
        {<<i, j, k, 0>> : k \in 1..Len(ResultList[i].TimeSeries[j].Period)} :
        j \in 1..Len(ResultList[i].TimeSeries)} :
        i \in 1..Len(ResultList)}

SeriesAt(path) == ResultList[path[1]].TimeSeries[path[2]]
PeriodAt(path) == SeriesAt(path).Period[path[3]]
PointAt(path) == PeriodAt(path).Point[path[4]]

\* the order in which the response nests the places
RECURSIVE PathBefore(_, _)
PathBefore(a, b) ==
    /\ a # <<>>
    /\ \/ Head(a) < Head(b)
       \/ Head(a) = Head(b) /\ PathBefore(Tail(a), Tail(b))

\* the period is one the normalizer reads the points of
PeriodRead(path) ==
    /\ ResultList[path[1]].success
    /\ SeriesAt(path).mRID \in mp_id_set
    /\ PeriodAt(path).start.kind = "num"

WellFormed(point) ==
    /\ point.position.kind \in {"num", "missing"}
    /\ point.quantity.kind \in {"num", "missing"}

\* the places at which an exception other than ValueError and TypeError is
\* raised, if the normalizer gets there
Breaking ==
    {path \in PeriodPaths :
        /\ ResultList[path[1]].success
        /\ SeriesAt(path).mRID \in mp_id_set
        /\ PeriodAt(path).start.kind = "nonstring"}
    \cup {path \in PointPaths :
            /\ PeriodRead(path)
            /\ PointAt(path).position.kind = "huge"
            /\ PointAt(path).quantity.kind # "bad"}

\* the rest of the result was given up before the place was reached
GivenUp(path) ==
    \E b \in Breaking : b[1] = path[1] /\ PathBefore(b, path)

\* the places of the points that yield a Reading
Emitting ==
    {path \in PointPaths :
        PeriodRead(path) /\ WellFormed(PointAt(path)) /\ ~GivenUp(path)}

RECURSIVE InNestingOrder(_)
InNestingOrder(paths) ==
    IF paths = {} THEN <<>>
    ELSE LET first == CHOOSE a \in paths :
                          \A b \in paths \ {a} : PathBefore(a, b)
         IN  <<first>> \o InNestingOrder(paths \ {first})

PositionAt(path) ==
    IF PointAt(path).position.kind = "missing" THEN 0
    ELSE PointAt(path).position.val

QuantityAt(path) ==
    IF PointAt(path).quantity.kind = "missing" THEN 0
    ELSE PointAt(path).quantity.val

\* the records of the response with some of its results left out
RecordsOfResults(results) ==
    normalize_api_response([is_dict |-> TRUE, result |-> results],
                           mp_id_set).records

\* C17: a Reading is emitted only for a time series whose metering point id
\* is tracked: a response with tracked and untracked ids yields Readings
\* of the tracked ones only, a time series without id yields none
C17_OnlyTrackedIds ==
    Normalized =>
        /\ \A n \in 1..Len(norm_call.records) :
              /\ norm_call.records[n].metering_point_id \in mp_id_set
              /\ \E path \in PointPaths :
                    SeriesAt(path).mRID
                        = norm_call.records[n].metering_point_id
        /\ \A m \in mp_id_set :
              Cardinality({n \in 1..Len(norm_call.records) :
                              norm_call.records[n].metering_point_id = m})
                  = Cardinality({path \in Emitting : SeriesAt(path).mRID = m})

\* a result with a time series of an untracked id and one of a tracked id,
\* each with a well-formed point: one Reading, of the tracked id
C17_Witness ==
    /\ Normalized
    /\ Len(ResultList) = 1
    /\ Len(ResultList[1].TimeSeries) = 2
    /\ ResultList[1].TimeSeries[1].mRID = UntrackedId
    /\ ResultList[1].TimeSeries[2].mRID \in mp_id_set
    /\ \E path \in PointPaths :
          /\ path[2] = 1
          /\ PeriodAt(path).start.kind = "num"
          /\ WellFormed(PointAt(path))
    /\ Len(norm_call.records) = 1
    /\ norm_call.records[1].metering_point_id
          = ResultList[1].TimeSeries[2].mRID

\* C18: a result marked unsuccessful contributes no Reading and does not
\* end the batch: the function does not raise, and the Readings of the
\* other results, earlier or later, are emitted
C18_UnsuccessfulSkipped ==
    Normalized =>
        /\ ~norm_call.raised
        /\ norm_call.records
              = RecordsOfResults(SelectSeq(ResultList, LAMBDA r : r.success))

\* an unsuccessful result that holds a readable point of a tracked id,
\* followed by a successful one that yields a Reading
C18_Witness ==
    /\ Normalized
    /\ Len(ResultList) = 2
    /\ ~ResultList[1].success
    /\ \E path \in PointPaths :
          /\ path[1] = 1
          /\ SeriesAt(path).mRID \in mp_id_set
          /\ PeriodAt(path).start.kind = "num"
          /\ WellFormed(PointAt(path))
    /\ ResultList[2].success
    /\ Len(norm_call.records) = 1

\* a point whose quantity or position is no number
Malformed(point) ==
    point.position.kind = "bad" \/ point.quantity.kind = "bad"

MapSeq(seq, Op(_)) == [n \in 1..Len(seq) |-> Op(seq[n])]

\* the results without their malformed points and without the periods
\* whose start is of one of the kinds
WithoutMalformed(results, kinds) ==
    LET CleanPeriod(period) ==
            [start |-> period.start,
             Point |-> SelectSeq(period.Point, LAMBDA pt : ~Malformed(pt))]
        CleanSeries(series) ==
            [mRID |-> series.mRID,
             Period |-> MapSeq(SelectSeq(series.Period,
                                         LAMBDA pd : pd.start.kind \notin kinds),
                               CleanPeriod)]
        CleanResult(result) ==
            [success |-> result.success,
             TimeSeries |-> MapSeq(result.TimeSeries, CleanSeries)]
    IN  MapSeq(results, CleanResult)

ReadingAt(path) ==
    [metering_point_id |-> SeriesAt(path).mRID,
     timestamp |-> PeriodAt(path).start.val + (PositionAt(path) - 1),
     consumption_value |-> QuantityAt(path)]

\* C20: the timestamp of every Reading is the start of its period plus
\* (position - 1) hours, position being the position the point carries;
\* the Readings come in the order in which the response nests them (time
\* series, period, point) and are not sorted
C20_TimestampAndOrder ==
    Normalized =>
        LET places == InNestingOrder(Emitting)
        IN  norm_call.records = [n \in 1..Len(places) |-> ReadingAt(places[n])]

\* two Readings of one time series, the first of a later hour than the
\* second
C20_Witness ==
    /\ Normalized
    /\ Len(norm_call.records) = 2
    /\ norm_call.records[1].metering_point_id
          = norm_call.records[2].metering_point_id
    /\ norm_call.records[1].timestamp > norm_call.records[2].timestamp


-----------------------------------------------------------------------------
(* Claims about build_reporting_layer (SpecReport) *)

\* the metadata the last build looked at handed to load_metadata_table
BuildMetadata == Metadata(report_call.metering_points_override)

\* the names of the objects a build creates
ReportingViews ==
    {view_statements[i] : i \in 1..Len(view_statements)}
        \cup {"meter_metadata_enriched"}

C24_BuildOrder ==
    /\ (builds >= 1 /\ report_call.result = "returned") =>
           /\ report_call.created =
                  <<"meter_data_stage", "meter_data_clean",
                    "daily_consumption", "monthly_consumption",
                    "hourly_profile", "missing_data_summary",
                    "load_variability", "daily_quality_flags",
                    "meter_metadata", "meter_metadata_enriched">>
           /\ \A i \in 1..Len(report_call.created) :
                  References(report_call.created[i])
                      \subseteq {report_call.created[j] : j \in 1..(i - 1)}
    /\ (/\ builds >= 1
        /\ report_call.config_ok
        /\ report_call.fail_at = 0
        /\ report_call.result # "FileNotFoundError") =>
           report_call.result = "returned"

\* a build that returned where there was no database
C24_Witness ==
    /\ builds = 1
    /\ report_call.result = "returned"
    /\ ~report_call.before.exists
    /\ ReportingViews \subseteq DOMAIN database.views

\* C25: a build that returned, made a second time with the same arguments
\* over the same store, returns and leaves the database as the first left
\* it; after every build that returned each view it creates has the
\* definition of this build, and the views are those that were there plus
\* those it creates.
C25_BuildIdempotent ==
    /\ builds = 2 =>
           /\ report_call.result = "returned"
           /\ database = report_call.before
    /\ (builds >= 1 /\ report_call.result = "returned") =>
           /\ DOMAIN database.views
                  = DOMAIN report_call.before.views \cup ReportingViews
           /\ \A name \in ReportingViews :
                  database.views[name]
                      = ViewDefinition(name, report_call.data_path)

\* the second of two builds with the same arguments has returned; they read
\* the archive and were given a mapping of their own
C25_Witness ==
    /\ builds = 2
    /\ report_call.result = "returned"
    /\ report_call.data_path = "archive"
    /\ database.views["meter_data_stage"].read_parquet = "archive"
    /\ report_call.metering_points_override = Override(OtherMeteringPoints)

\* C26: after a build that returned, the table meter_metadata holds one row
\* for every metering point of the metadata of that build, and no other
\* row.
C26_MetadataReplaced ==
    (builds >= 1 /\ report_call.result = "returned") =>
        LET rows == database.tables["meter_metadata"] IN
        /\ Len(rows) = Cardinality(DOMAIN BuildMetadata)
        /\ \A m \in DOMAIN BuildMetadata :
               \E i \in 1..Len(rows) : rows[i].metering_point_id = m
        /\ \A i \in 1..Len(rows) :
               rows[i].metering_point_id \in DOMAIN BuildMetadata

\* a build returned on a database whose table held the row of a metering
\* point that the metadata of this build does not name
C26_Witness ==
    /\ builds = 1
    /\ report_call.result = "returned"
    /\ "meter_metadata" \in DOMAIN report_call.before.tables
    /\ \E i \in 1..Len(report_call.before.tables["meter_metadata"]) :
         report_call.before.tables["meter_metadata"][i].metering_point_id
             \notin DOMAIN BuildMetadata

\* the views that are queried are there and read the store, whose files can
\* all be read
Queryable ==
    /\ {"meter_data_stage", "meter_data_clean", "daily_consumption",
        "missing_data_summary"} \subseteq DOMAIN database.views
    /\ database.views["meter_data_stage"].read_parquet = "data"
    /\ \A key \in Directories(files) : files[key].exists => files[key].readable

\* the readings of metering point e on day d are 24, one per hour, with the
\* values 1..24
FullDay(e, d) ==
    /\ FileExists(files, <<e, d>>)
    /\ Len(files[<<e, d>>].rows) = 24
    /\ \A h \in 0..23 :
           \E n \in 1..24 : files[<<e, d>>].rows[n] = Rec(e, 24 * d + h, h + 1)

\* C27: when the store holds the 24 hourly readings of a metering point on a
\* day, with the values 1..24, daily_consumption has one row for them, with
\* total_kwh = 300 and reading_count = 24, and missing_data_summary one row,
\* with missing_readings = 0.
C27_FullDayAggregates ==
    Queryable =>
        \A key \in Directories(files) :
            FullDay(key[1], key[2]) =>
                LET daily == {row \in daily_consumption(database, files) :
                                 /\ row.metering_point_id = key[1]
                                 /\ row.reading_date = key[2]}
                    missing == {row \in missing_data_summary(database, files) :
                                   /\ row.metering_point_id = key[1]
                                   /\ row.reading_date = key[2]}
                IN  /\ Cardinality(daily) = 1
                    /\ \A row \in daily :
                           row.total_kwh = 300 /\ row.reading_count = 24
                    /\ Cardinality(missing) = 1
                    /\ \A row \in missing : row.missing_readings = 0

\* the response of 24 points was normalized and written, the readings of
\* another metering point too, and a build over the store returned
C27_Witness ==
    /\ builds = 1
    /\ report_call.result = "returned"
    /\ Queryable
    /\ FullDay(1, 0)
    /\ FileExists(files, <<2, 0>>)

-----------------------------------------------------------------------------
(* More claims about main() (Spec) *)

\* the chunks of a list follow each other in ascending date order
Ascending(list) ==
    \A i, j \in 1..Len(list) : i < j => list[i][2] < list[j][1]

\* C31: a run is sequential: while the chunks of a metering point are gone
\* through, in ascending date order and one per iteration, no checkpoint
\* changes; update_last_ingestion_date is called at most once in a pass,
\* only after the last chunk of the list was attempted, and what it writes
\* is the date_to of line 67 in the row of that metering point, the rows of
\* the others staying as they were when the pass began.
C31_SequentialRun ==
    /\ Ascending(chunks)
    /\ pc = "chunk" =>
           /\ pass_mp = mp_id
           /\ update_calls = 0
           /\ Len(outcomes) = chunk_index - 1
    /\ (pass_mp # None /\ update_calls = 0) => ingestion_state = pass_start_state
    /\ update_calls <= 1
    /\ update_calls = 1 =>
           /\ Len(outcomes) = Len(chunks)
           /\ pc \in {"entity", "done"}
    /\ update_written =>
           /\ update_calls = 1
           /\ CheckpointOf(ingestion_state, pass_mp) = date_to
           /\ date_to = today
    /\ \A m \in mp_id_set \ {pass_mp} :
           CheckpointOf(ingestion_state, m) = CheckpointOf(pass_start_state, m)

\* the second metering point had three chunks, the last of which failed, and
\* its checkpoint was written once, after the third
C31_Witness ==
    /\ pc = "done"
    /\ pass_mp = valid_metering_points[2]
    /\ Len(chunks) = 3
    /\ Len(outcomes) = 3
    /\ outcomes[3].status # "ok"
    /\ update_calls = 1
    /\ update_written
    /\ CheckpointOf(ingestion_state, pass_mp) = date_to
    /\ CheckpointOf(pass_start_state, pass_mp) # date_to


\* main() is one thread that runs until it returns: whenever a step of it
\* can be taken, one is taken
SpecLive == Init /\ [][Next]_vars /\ WF_vars(Next)

\* the pass of a metering point is over: its checkpoint was written, or no
\* chunk succeeded and it was left alone, or the except clause of line 120
\* ended the pass
LeftPass(m) ==
    /\ pass_mp = m
    /\ pc \in {"entity", "done"}
    /\ \/ update_written
       \/ update_calls = 0 /\ ~pass_error
       \/ pass_error

\* C32: every run ends, whatever fails: main() comes to its end, and when
\* the three setup steps went well every tracked metering point was gone
\* through and has left its pass, with its checkpoint written, skipped, or
\* by the except clause of line 120.
C32_RunTerminates ==
    <>(/\ pc = "done"
       /\ run_result \notin SetupErrors \cup {"raised"} =>
              /\ run_result = "completed"
              /\ visited = mp_id_set
              /\ mp_index > Len(valid_metering_points)
              /\ LeftPass(valid_metering_points[Len(valid_metering_points)]))

\* main() ended after a pass in which every chunk failed and a pass whose
\* checkpoint write failed three times
C32_Witness ==
    /\ pc = "done"
    /\ run_result = "completed"
    /\ visited = mp_id_set
    /\ valid_metering_points[2] \in entity_errors
    /\ \E i \in 1..Len(outcomes) : outcomes[i].status = "fetch_failed"
    /\ \E i \in 1..Len(outcomes) : outcomes[i].status = "store_failed"


\* chunk i of the pass lies inside the range a run plans from date_from on
\* day now
InsideNextRange(i, now) ==
    /\ NextRunFrom(now) <= chunks[i][1]
    /\ chunks[i][2] <= now

\* C33: every chunk that failed in a pass lies inside the range the next
\* run plans for that metering point (stated for a next run on the same
\* day, which can read the state table: a later day only moves the range
\* forward).
C33_FailedChunkRefetched ==
    PassFinished =>
        \A i \in 1..Len(outcomes) :
            outcomes[i].status # "ok" => InsideNextRange(i, today)


\* C34: a chunk whose response yields no record counts as succeeded: from
\* an empty result list, from results that are all unsuccessful and from
\* time series of untracked ids normalize_api_response returns the empty
\* list without raising and save_to_parquet returns without raising or
\* writing; the chunk sets chunk_success, and a pass in which a chunk
\* succeeded, with or without records, calls update_last_ingestion_date,
\* which writes date_to.
C34_EmptyChunkSucceeds ==
    /\ (pc = "chunk" /\ chunk_index <= Len(chunks)) =>
           \A response \in ZeroReadingResponses(mp_id, chunks[chunk_index][1]) :
               LET normalized == normalize_api_response(response, mp_id_set)
                   saved == save_to_parquet(files, normalized.records, 0, "before")
               IN  /\ ~normalized.raised
                   /\ normalized.records = <<>>
                   /\ ~saved.raised
                   /\ saved.files = files
    /\ \A i \in 1..Len(outcomes) : outcomes[i].status = "ok" => chunk_success
    /\ (PassFinished /\ chunk_success) =>
           /\ update_calls = 1
           /\ update_written => CheckpointOf(ingestion_state, pass_mp) = date_to

\* of three chunks only the second succeeded, without a record; the pass
\* wrote nothing and the checkpoint of the metering point moved to date_to
C34_Witness ==
    /\ PassFinished
    /\ Len(outcomes) = 3
    /\ outcomes[1].status = "fetch_failed"
    /\ outcomes[2].status = "ok" /\ outcomes[2].records = <<>>
    /\ outcomes[3].status = "store_failed"
    /\ update_written
    /\ CheckpointOf(ingestion_state, pass_mp) = date_to
    /\ CheckpointOf(pass_start_state, pass_mp) = None
    /\ pass_mp = valid_metering_points[1]
    /\ DOMAIN files = {<<pass_mp, chunks[3][1]>>}

-----------------------------------------------------------------------------
(* More claims about the state table and get_timeframe (SpecState) *)

\* the state table without the row of a metering point
NeverIngested(state, metering_point_id) ==
    {row \in state : row.metering_point_id # metering_point_id}

\* C35: when the query of get_last_ingestion_date raises, get_timeframe
\* does not raise: it returns what it returns for a metering point that has
\* no row, the range from the date of the call less initial_backfill_days
\* to the date of the call (both clock reads on the same date), whatever
\* row the table holds.
C35_ReadFailureIsBackfill ==
    (state_call.op = "timeframe" /\ ~state_call.read_ok) =>
        /\ get_last_ingestion_date(state_before, state_call.metering_point_id,
                                   state_call.read_ok) = None
        /\ state_call.result
               = get_timeframe(NeverIngested(state_before,
                                             state_call.metering_point_id),
                               state_call.metering_point_id,
                               state_call.initial_backfill_days,
                               state_call.now_from, state_call.now_to, TRUE)
        /\ state_call.result[2] = state_call.now_to
        /\ state_call.now_from = state_call.now_to =>
               state_call.result[1]
                   = state_call.result[2] - state_call.initial_backfill_days

\* the query raised for a metering point that has a checkpoint, and the
\* range returned is the backfill range, not the one from the checkpoint
C35_Witness ==
    /\ state_call.op = "timeframe"
    /\ ~state_call.read_ok
    /\ state_call.now_from = state_call.now_to
    /\ \E row \in RowsOfPoint(state_before, state_call.metering_point_id) :
           /\ state_call.result[1] # row.last_ingestion_date - OverlapDays
           /\ state_call.result[1]
                  = state_call.now_to - state_call.initial_backfill_days


(* Claims about the state table over runs (SpecRuns) *)

\* the pass looked at wrote the checkpoint of its metering point
PassWrote ==
    /\ state_call.op = "pass"
    /\ state_call.attempts >= 1
    /\ ~state_call.raised

\* C36: over runs whose clock does not go backwards the checkpoint of a
\* metering point never decreases: no checkpoint is later than the day it
\* is; a pass that writes stores the date_to it planned, which is not
\* less than the checkpoint it replaces; a pass that does not write leaves
\* the table as it was; and no pass changes the row of another metering
\* point.
C36_CheckpointMonotone ==
    /\ \A row \in ingestion_state : row.last_ingestion_date <= today
    /\ state_call.op = "pass" =>
          /\ \A m \in mp_id_set :
                CheckpointOf(ingestion_state, m) >= CheckpointOf(state_before, m)
          /\ \A m \in mp_id_set \ {state_call.metering_point_id} :
                CheckpointOf(ingestion_state, m) = CheckpointOf(state_before, m)
          /\ PassWrote =>
                /\ state_call.date = state_call.result[2]
                /\ CheckpointOf(ingestion_state, state_call.metering_point_id)
                       = state_call.result[2]
          /\ ~PassWrote => ingestion_state = state_before

\* a pass of a later day replaced the checkpoint an earlier pass had
\* written by a later one
C36_Witness ==
    /\ PassWrote
    /\ CheckpointOf(state_before, state_call.metering_point_id) # None
    /\ CheckpointOf(state_before, state_call.metering_point_id)
           < CheckpointOf(ingestion_state, state_call.metering_point_id)
    /\ state_call.now_from = state_call.now_to

-----------------------------------------------------------------------------
(* Claims about main() (Spec), continued *)

\* the metering points of the records of the chunks of the current pass
StoredIds ==
    UNION {{outcomes[i].records[k].metering_point_id :
               k \in 1..Len(outcomes[i].records)} : i \in 1..Len(outcomes)}

\* C37: what a pass stores is restricted to the tracked metering points,
\* not to the one of the pass: normalize_api_response is given every
\* tracked id, so the readings of another tracked metering point in the
\* response are records of the chunk and rows of their partitions when the
\* chunk succeeded, and those of an untracked one are not; the checkpoints
\* of the other metering points stay as they were when the pass began.
C37_StoredForTrackedSet ==
    /\ StoredIds \subseteq mp_id_set
    /\ (pc = "chunk" /\ chunk_index <= Len(chunks)) =>
           \A response \in ForeignResponses(mp_id, chunks[chunk_index][1]) :
               LET normalized == normalize_api_response(response, mp_id_set)
               IN  /\ ~normalized.raised
                   /\ normalized.records # <<>>
                   /\ \A k \in 1..Len(normalized.records) :
                          normalized.records[k].metering_point_id
                              \in OtherTracked(mp_id)
    /\ \A i \in 1..Len(outcomes) : outcomes[i].status = "ok" => Stored(i)
    /\ pass_mp # None =>
           \A m \in OtherTracked(pass_mp) :
               CheckpointOf(ingestion_state, m) = CheckpointOf(pass_start_state, m)

\* the pass of the first metering point stored a reading of the second and
\* none of its own; its checkpoint was written and the second has none
C37_Witness ==
    /\ PassFinished
    /\ pass_mp = valid_metering_points[1]
    /\ StoredIds = {valid_metering_points[2]}
    /\ outcomes[1].status = "ok"
    /\ Stored(1)
    /\ \A key \in DOMAIN files : key[1] = valid_metering_points[2]
    /\ update_written
    /\ CheckpointOf(ingestion_state, pass_mp) = date_to
    /\ CheckpointOf(ingestion_state, valid_metering_points[2]) = None

-----------------------------------------------------------------------------
(* More claims about save_to_parquet (SpecStore) *)

\* the groups of the call looked at, in the order of the loop
LastKeys == GroupKeys(last_records)

\* read_parquet raises in the body of group i of the call looked at
CannotMerge(i) ==
    FileExists(prev_files, LastKeys[i]) /\ ~prev_files[LastKeys[i]].readable

\* the group in whose body the call looked at raised
RaisedIn(k) ==
    /\ k \in 1..Len(LastKeys)
    /\ k = last_fail_at \/ CannotMerge(k)
    /\ \A i \in 1..(k - 1) : i # last_fail_at /\ ~CannotMerge(i)

\* the partition of a key is as it was before the call looked at
Untouched(key) ==
    IF key \in Directories(prev_files)
    THEN key \in Directories(files) /\ files[key] = prev_files[key]
    ELSE key \notin Directories(files)

\* C38: a call of save_to_parquet is not atomic across partitions: when
\* the body of its k-th group raises, the call raises; the partitions of
\* the groups before the k-th hold what the call wrote, the rows they had
\* merged with the records of the group; the partition of the k-th group
\* does not; and the partitions of the groups after it, like every other
\* partition, are as they were.
C38_PartialBatchKept ==
    observed = 1 =>
        \A k \in 1..Len(LastKeys) :
            RaisedIn(k) =>
                /\ last_result = "raised"
                /\ \A i \in 1..(k - 1) :
                       files[LastKeys[i]]
                           = Written(Combined(prev_files, LastKeys[i],
                                              GroupOf(last_records, LastKeys[i])))
                /\ \/ Untouched(LastKeys[k])
                   \/ files[LastKeys[k]] \in {EmptyDirectory, Truncated}
                /\ \A i \in (k + 1)..Len(LastKeys) : Untouched(LastKeys[i])
                /\ \A key \in (Directories(files) \cup Directories(prev_files))
                                 \ {LastKeys[i] : i \in 1..Len(LastKeys)} :
                       Untouched(key)

\* the call raised in its second group: the file of the first holds a row
\* more than before, and the partition of the second was not made
C38_Witness ==
    /\ observed = 1
    /\ last_result = "raised"
    /\ Len(LastKeys) = 2
    /\ RaisedIn(2)
    /\ FileExists(prev_files, LastKeys[1])
    /\ FileExists(files, LastKeys[1])
    /\ Len(files[LastKeys[1]].rows) > Len(prev_files[LastKeys[1]].rows)
    /\ LastKeys[2] \notin Directories(files)

-----------------------------------------------------------------------------
(* More claims about normalize_api_response (SpecNormalize) *)

\* C39: every Reading emitted for a point of a period has a timestamp at or
\* after the start of that period, also when the point carries no
\* position.
C39_NotBeforePeriodStart ==
    Normalized =>
        LET places == InNestingOrder(Emitting)
        IN  /\ Len(norm_call.records) = Len(places)
            /\ \A n \in 1..Len(places) :
                   norm_call.records[n].timestamp
                       >= PeriodAt(places[n]).start.val

=========================================================================
